---- MODULE Spec2Model ----
(***************************************************************************)
(* Model of the hseg corpus loaders (src/datasets/icsi.py and              *)
(* src/datasets/ami.py): annotation-tree construction, normalisation,      *)
(* utterance attachment, finalisation, and the derivation of the raw and   *)
(* smoothed topic-transition vectors.                                      *)
(*                                                                         *)
(* Python objects live in a heap: an AnnoTreeNode is a heap cell addressed *)
(* by its id, and child lists and the annotation index hold ids, so two    *)
(* references to one node see the same fields, as in the source.           *)
(***************************************************************************)
EXTENDS Integers, Sequences, FiniteSets, TLC

VARIABLES
    pc,                 \* position in the load pipeline
    status,             \* "ok", or the reason the load aborted
    log,                \* set of messages the logger has emitted
    MIN_SEGMENT_SIZE,   \* self.MIN_SEGMENT_SIZE
    notes,              \* self.notes[meeting]
    raw_transitions,    \* self.raw_transitions[meeting]
    transitions,        \* self.transitions[meeting]
    dialect,            \* which loader runs: "icsi", "ami" or "none"
    xml,                \* the meeting's topic-annotation document
    utterances,         \* what load_meeting_utterances returned (ICSI)
    index,              \* self.index[meeting] (ICSI)
    heap,               \* the AnnoTreeNode objects, by id
    anno_root,          \* id of self.annos[meeting], 0 before it is built
    anno_index,         \* self.anno_indices[meeting]: path -> node id
    word_xml,           \* the speakers' word files: speaker -> elements
    words,              \* self.words[meeting]: speaker -> words and index
    segs,               \* the speakers' segment files (ICSI): speaker -> segments
    utt_refs,           \* load_meeting_utterances' result, each utterance as the
                        \* position of the word object it is (ICSI)
    quote_stacks,       \* each speaker's quote_stack when its words were loaded
    model_name,         \* MODEL_NAME of main: "random", "equi" or "none"
    true_K,             \* the K handed to segment_meeting
    transitions_hat     \* what segment_meeting returned

smoothVars == <<MIN_SEGMENT_SIZE, notes, raw_transitions, transitions>>
treeVars == <<dialect, xml, utterances, index, heap, anno_root, anno_index>>
wordVars == <<word_xml, words, segs, utt_refs, quote_stacks>>
baseVars == <<model_name, true_K, transitions_hat>>
vars == <<pc, status, log, smoothVars, treeVars, wordVars, baseVars>>

----------------------------------------------------------------------------
(* Bounds of the model *)

\* longest raw transition vector drawn for the smoothing specification
MaxLen == 7
\* largest minimum segment size drawn for the smoothing specification
MaxSegSize == 4

\* self.MIN_SEGMENT_SIZE as set by the constructors
DefaultMinSegmentSize == 10

----------------------------------------------------------------------------
(* Generic helpers *)

Max(a, b) == IF a >= b THEN a ELSE b
Min(a, b) == IF a <= b THEN a ELSE b

RECURSIVE SumSeq(_)
SumSeq(s) == IF s = <<>> THEN 0 ELSE Head(s) + SumSeq(Tail(s))

\* Python's s[lo:hi] on a list, with 0-based bounds: a negative bound counts
\* from the end of the list, and every bound is clamped into [0, len(s)].
PySliceBound(k, n) == IF k < 0 THEN Max(k + n, 0) ELSE Min(k, n)

PySlice(s, lo, hi) ==
    LET a == PySliceBound(lo, Len(s))
        b == PySliceBound(hi, Len(s))
    IN  IF a < b THEN SubSeq(s, a + 1, b) ELSE <<>>

----------------------------------------------------------------------------
(* compose_meeting_notes: minimum-segment-size smoothing                   *)

\* a faulty variant: the test of the window is inverted
SmoothStep_inverted(t, i, m) ==
    IF SumSeq(PySlice(t, i - m, i)) > 0 THEN t ELSE [t EXCEPT ![i + 1] = 0]

\* One iteration of `for i, _ in enumerate(raw_transitions)`: position i
\* (0-based) is cleared when the slice transitions[i - M : i] sums above 0.
SmoothStep(t, i, m) ==
    IF SumSeq(PySlice(t, i - m, i)) > 0 THEN [t EXCEPT ![i + 1] = 0] ELSE t

RECURSIVE SmoothFrom(_, _, _)
SmoothFrom(t, i, m) ==
    IF i >= Len(t) THEN t ELSE SmoothFrom(SmoothStep(t, i, m), i + 1, m)

\* transitions = raw_transitions.copy(), then the loop over every position
smooth_transitions(raw, m) == SmoothFrom(raw, 0, m)

----------------------------------------------------------------------------
(* Values the tree variables hold in a specification that loads no tree *)

EmptyMap == [k \in {} |-> 0]

NoTree ==
    /\ dialect = "none"
    /\ xml = <<>>
    /\ utterances = EmptyMap
    /\ index = EmptyMap
    /\ heap = <<>>
    /\ anno_root = 0
    /\ anno_index = EmptyMap

NoSegs ==
    /\ segs = EmptyMap
    /\ utt_refs = EmptyMap
    /\ quote_stacks = EmptyMap

\* no baseline segmenter has run
NoBaseline ==
    /\ model_name = "none"
    /\ true_K = 0
    /\ transitions_hat = <<>>

NoWords ==
    /\ word_xml = EmptyMap
    /\ words = EmptyMap
    /\ NoSegs

----------------------------------------------------------------------------
(* Specification of the smoothing pass alone: the raw vector and the       *)
(* minimum segment size are drawn from bounded sets.                       *)

BitVectors(n) == [1..n -> {0, 1}]

RawVectors == {v \in UNION {BitVectors(n) : n \in 0..MaxLen} : Len(v) > 0 => v[1] = 0}

\* a raw vector of twelve utterances, smoothed with the loaders' own
\* minimum segment size
ExampleRaw == <<0, 1, 0, 0, 1, 0, 0, 0, 0, 0, 0, 1>>

InitSmooth ==
    /\ NoBaseline
    /\ pc = "smooth"
    /\ status = "ok"
    /\ log = {}
    /\ \/ /\ MIN_SEGMENT_SIZE \in 1..MaxSegSize
          /\ raw_transitions \in RawVectors
       \/ /\ MIN_SEGMENT_SIZE = DefaultMinSegmentSize
          /\ raw_transitions = ExampleRaw
    /\ notes = <<>>
    /\ transitions = <<>>
    /\ NoTree
    /\ NoWords

Smooth ==
    /\ pc = "smooth"
    /\ transitions' = smooth_transitions(raw_transitions, MIN_SEGMENT_SIZE)
    /\ pc' = "done"
    /\ UNCHANGED <<baseVars, status, log, MIN_SEGMENT_SIZE, notes, raw_transitions, treeVars, wordVars>>

NextSmooth == Smooth

SpecSmooth == InitSmooth /\ [][NextSmooth]_vars

----------------------------------------------------------------------------
(* Claims about the smoothed vector *)

Ones(t) == {i \in 1..Len(t) : t[i] = 1}

\* C1: in the smoothed vector any two boundaries are at least
\* MIN_SEGMENT_SIZE positions apart.
C1_MinDistance ==
    pc = "done" =>
        \A i, j \in Ones(transitions) : i < j => j - i >= MIN_SEGMENT_SIZE

\* The segments of a labelling: one starts at the first position and one at
\* every boundary; a segment runs up to the next start or the end.
SegmentStarts(t) == IF Len(t) = 0 THEN {} ELSE {1} \cup Ones(t)

SegmentEnd(t, s) ==
    LET later == {x \in SegmentStarts(t) : x > s}
    IN  IF later = {} THEN Len(t) + 1
        ELSE CHOOSE x \in later : \A y \in later : x <= y

SegmentLen(t, s) == SegmentEnd(t, s) - s

\* C2: once smoothing has kept a boundary, no segment of the smoothed
\* labelling (first, inner or last) is shorter than MIN_SEGMENT_SIZE.
C2_NoShortSegment ==
    (pc = "done" /\ Ones(transitions) # {}) =>
        \A s \in SegmentStarts(transitions) :
            SegmentLen(transitions, s) >= MIN_SEGMENT_SIZE

----------------------------------------------------------------------------
(* The topic-annotation document.  An XML document is the sequence of its  *)
(* elements in document order, each with its nesting depth; element 1 is   *)
(* the root.  An element that is not a topic carries an href: a speaker    *)
(* and an inclusive key range first..last; dots tells whether the href is  *)
(* written with "..", which a range of one key (first = last) may be.      *)

\* most elements of the topic-annotation documents that are enumerated in
\* full, the root included
MaxNodes == 4

Reverse(s) == [i \in 1..Len(s) |-> s[Len(s) + 1 - i]]

RECURSIVE SeqOfRange(_, _)
SeqOfRange(a, b) == IF a > b THEN <<>> ELSE <<a>> \o SeqOfRange(a + 1, b)

\* last element of the subtree of element i
XmlSubtreeEnd(x, i) ==
    LET after == {j \in (i + 1)..Len(x) : x[j].depth <= x[i].depth}
    IN  IF after = {} THEN Len(x)
        ELSE (CHOOSE j \in after : \A k \in after : j <= k) - 1

\* `for entry in xml_node`: the element's children, in document order
RECURSIVE XmlChildrenFrom(_, _, _, _)
XmlChildrenFrom(x, i, j, last) ==
    IF j > last THEN <<>>
    ELSE IF x[j].depth = x[i].depth + 1
         THEN <<j>> \o XmlChildrenFrom(x, i, j + 1, last)
         ELSE XmlChildrenFrom(x, i, j + 1, last)

XmlChildren(x, i) == XmlChildrenFrom(x, i, i + 1, XmlSubtreeEnd(x, i))

NoHref == [speaker |-> "", first |-> 0, last |-> 0, dots |-> FALSE]

\* `part in tag` for the tags of the documents: a tag holds itself, and
\* "subtopic" holds "topic"
TagHolds(tag, part) == tag = part \/ (tag = "subtopic" /\ part = "topic")

XmlRoot == [depth |-> 0, tag |-> "root", href |-> NoHref]

\* elements that may follow the document x: one level below the last
\* element when that one can hold children, or at any shallower level
XmlExtensions(x, tags, hrefs) ==
    LET prev == x[Len(x)]
        deepest == IF prev.tag \in {"root", "topic"} THEN prev.depth + 1
                   ELSE prev.depth
    IN  {[depth |-> d, tag |-> t, href |-> NoHref] :
            d \in 1..deepest, t \in tags \ {"child"}}
        \cup {[depth |-> d, tag |-> "child", href |-> r] :
            d \in 1..deepest, r \in IF "child" \in tags THEN hrefs ELSE {}}

RECURSIVE XmlDocsOfSize(_, _, _)
XmlDocsOfSize(n, tags, hrefs) ==
    IF n = 1 THEN {<<XmlRoot>>}
    ELSE UNION {{Append(x, e) : e \in XmlExtensions(x, tags, hrefs)} :
                    x \in XmlDocsOfSize(n - 1, tags, hrefs)}

XmlDocs(tags, hrefs) == UNION {XmlDocsOfSize(n, tags, hrefs) : n \in 1..MaxNodes}

----------------------------------------------------------------------------
(* AnnoTreeNode objects and the heap *)

NoKey == [speaker |-> "", key |-> 0]

\* a freshly constructed AnnoTreeNode
AnnoTreeNode ==
    [tag |-> "", key |-> NoKey, path |-> <<>>, nn |-> <<>>, keys |-> <<>>,
     convo |-> <<>>, is_leaf |-> FALSE, composed |-> FALSE]

\* the state the tree-building passes thread through: the heap, the
\* annotation index, the load's status and the log
TreeState(h, ai, st, lg) == [heap |-> h, anno_index |-> ai, status |-> st, log |-> lg]

Alloc(ts, node) == [ts EXCEPT !.heap = Append(ts.heap, node)]
NewId(ts) == Len(ts.heap) + 1

----------------------------------------------------------------------------
(* ICSIDataset.build_anno *)

\* the utterance keys one non-topic entry stands for: f"{speaker}:{stem}.{i}"
\* for every i of the range (a single key is the range of itself)
icsi_utt_keys(href) ==
    [k \in 1..(href.last - href.first + 1) |->
        [speaker |-> href.speaker, key |-> href.first + k - 1]]

\* `for key in utt_keys`: one utterance placeholder per key, appended to nn
RECURSIVE icsi_append_utts(_, _, _)
icsi_append_utts(ts, id, keys) ==
    IF keys = <<>> THEN ts
    ELSE LET u == NewId(ts)
             t1 == Alloc(ts, [AnnoTreeNode EXCEPT !.tag = "utterance", !.key = Head(keys)])
             t2 == [t1 EXCEPT !.heap[id].nn = Append(@, u)]
         IN  icsi_append_utts(t2, id, Tail(keys))

RECURSIVE icsi_build_anno(_, _, _)
RECURSIVE icsi_build_entries(_, _, _, _)

\* `for entry in xml_node`: a topic with children is built recursively, a
\* topic without children is skipped, any other entry adds its placeholders;
\* entry.attrib["href"] of an entry without href raises KeyError, and an
\* exception of a nested call leaves the loop before the append
icsi_build_entries(ts, x, id, entries) ==
    IF entries = <<>> \/ ts.status # "ok" THEN ts
    ELSE LET e == Head(entries)
         IN  IF x[e].tag = "topic"
             THEN IF XmlChildren(x, e) # <<>>
                  THEN LET r == icsi_build_anno(ts, x, e)
                           t2 == [r.ts EXCEPT !.heap[id].nn = Append(@, r.id)]
                       IN  IF r.ts.status # "ok" THEN r.ts
                           ELSE icsi_build_entries(t2, x, id, Tail(entries))
                  ELSE icsi_build_entries(ts, x, id, Tail(entries))
             ELSE IF x[e].href = NoHref
             THEN [ts EXCEPT !.status = "KeyError: href"]
             ELSE icsi_build_entries(icsi_append_utts(ts, id, icsi_utt_keys(x[e].href)),
                                     x, id, Tail(entries))

icsi_build_anno(ts, x, i) ==
    LET id == NewId(ts)
        t1 == Alloc(ts, [AnnoTreeNode EXCEPT
                            !.tag = IF TagHolds(x[i].tag, "root") THEN "root" ELSE "topic"])
    IN  [ts |-> icsi_build_entries(t1, x, id, XmlChildren(x, i)), id |-> id]

----------------------------------------------------------------------------
(* register_anno_node, ICSIDataset.normalize_anno_tree *)

\* A path is the sequence of its dot-separated segments: "*.0.1" is
\* <<"*", 0, 1>>, path + "." + str(branch_id) appends one segment.
RootPath == <<"*">>
ChildPath(path, branch_id) == Append(path, branch_id)

MapPut(f, k, v) == [x \in DOMAIN f \cup {k} |-> IF x = k THEN v ELSE f[x]]
MapDel(f, k) == [x \in DOMAIN f \ {k} |-> f[x]]

\* a path already in the index ends the process (exit(-1))
register_anno_node(ts, id) ==
    LET path == ts.heap[id].path
    IN  IF path \in DOMAIN ts.anno_index
        THEN [ts EXCEPT !.status = "exit: duplicate node path",
                        !.log = @ \cup {"Duplicate node path"}]
        ELSE [ts EXCEPT !.anno_index = MapPut(@, path, id)]

\* a faulty variant: every placeholder is taken as a run of its own
UtteranceRun_one(h, nn) == 1

\* length of the run of utterance placeholders at the front of nn
RECURSIVE UtteranceRun(_, _)
UtteranceRun(h, nn) ==
    IF nn # <<>> /\ h[Head(nn)].tag = "utterance" THEN 1 + UtteranceRun(h, Tail(nn)) ELSE 0

RECURSIVE normalize_anno_tree(_, _, _)
RECURSIVE normalize_loop(_, _, _, _, _, _)

\* the `while nn` loop: nn is what is left of the child list,
\* normalized_nn what has been rebuilt so far
normalize_loop(ts, path, id, nn, normalized_nn, branch_id) ==
    IF ts.status # "ok" THEN ts
    ELSE IF nn = <<>> THEN [ts EXCEPT !.heap[id].nn = normalized_nn]
    ELSE IF ts.heap[Head(nn)].tag = "utterance"
    THEN LET r == UtteranceRun(ts.heap, nn)
             composed_topic_keys == [k \in 1..r |-> ts.heap[nn[k]].key]
             rest == SubSeq(nn, r + 1, Len(nn))
         IN  IF ts.heap[id].is_leaf
             THEN [ts EXCEPT !.heap[id].keys = composed_topic_keys,
                             !.heap[id].nn = <<>>]
             ELSE LET tid == NewId(ts)
                      t1 == Alloc(ts, [AnnoTreeNode EXCEPT
                                          !.tag = "topic", !.composed = TRUE,
                                          !.path = ChildPath(path, branch_id)])
                      t2 == register_anno_node(t1, tid)
                      t3 == [t2 EXCEPT !.heap[tid].keys = composed_topic_keys,
                                       !.heap[tid].is_leaf = TRUE,
                                       !.heap[tid].nn = <<>>]
                  IN  normalize_loop(t3, path, id, rest,
                                     Append(normalized_nn, tid), branch_id + 1)
    ELSE LET t1 == normalize_anno_tree(ts, ChildPath(path, branch_id), Head(nn))
             t2 == [t1 EXCEPT !.heap[id].is_leaf = FALSE]
         IN  normalize_loop(t2, path, id, Tail(nn),
                            Append(normalized_nn, Head(nn)), branch_id + 1)

normalize_anno_tree(ts, path, id) ==
    LET t1 == [ts EXCEPT !.heap[id].path = path]
        t2 == register_anno_node(t1, id)
        nn == t2.heap[id].nn
        t3 == [t2 EXCEPT !.heap[id].is_leaf =
                            \A k \in 1..Len(nn) : t2.heap[nn[k]].tag = "utterance"]
    IN  IF t2.status # "ok" THEN t2
        ELSE normalize_loop(t3, path, id, nn, <<>>, 0)

----------------------------------------------------------------------------
(* discover_anno_leaves (the same code in both loaders) *)

\* a faulty variant: the children are pushed in document order
PushChildren_unreversed(stack, nn) == stack \o nn

\* `for child in node.nn[::-1]: stack.append(child)`
PushChildren(stack, nn) == stack \o Reverse(nn)

RECURSIVE discover_loop(_, _, _)
discover_loop(h, stack, leaves) ==
    IF stack = <<>> THEN leaves
    ELSE LET node == stack[Len(stack)]
             popped == SubSeq(stack, 1, Len(stack) - 1)
         IN  discover_loop(h, PushChildren(popped, h[node].nn),
                           IF h[node].is_leaf THEN Append(leaves, node) ELSE leaves)

discover_anno_leaves(h, root) == discover_loop(h, <<root>>, <<>>)

----------------------------------------------------------------------------
(* ICSIDataset.load_all_utterances *)

RECURSIVE ConcatTables(_, _)
ConcatTables(tables, speakers) ==
    IF speakers = {} THEN <<>>
    ELSE LET sp == CHOOSE x \in speakers : TRUE
         IN  tables[sp] \o ConcatTables(tables, speakers \ {sp})

\* self.index[meeting][speaker][key] = entry, for the speakers that have an
\* utterance table; a later entry with the same key replaces an earlier one
speaker_index(entries) ==
    [k \in {entries[i].key : i \in 1..Len(entries)} |->
        LET last == CHOOSE i \in 1..Len(entries) :
                        /\ entries[i].key = k
                        /\ \A j \in 1..Len(entries) : entries[j].key = k => j <= i
        IN  entries[last]]

load_all_utterances(tables) == [sp \in DOMAIN tables |-> speaker_index(tables[sp])]

----------------------------------------------------------------------------
(* ICSIDataset.attach_meeting_notes *)

\* `for key in leaf.keys`: acc carries filtered_keys, convo, the
\* duplicate_check_list, the log and the status
RECURSIVE attach_keys(_, _, _, _)
attach_keys(acc, idx, path, keys) ==
    IF keys = <<>> \/ acc.status # "ok" THEN acc
    ELSE LET key == Head(keys)
         IN  IF key.speaker \notin DOMAIN idx
             THEN [acc EXCEPT !.status = "KeyError: speaker"]
             ELSE IF key.key \notin DOMAIN idx[key.speaker]
             THEN attach_keys(acc, idx, path, Tail(keys))
             ELSE attach_keys(
                    [acc EXCEPT
                        !.log = IF key \in DOMAIN acc.dup
                                THEN @ \cup {"Duplicate key"} ELSE @,
                        !.filtered_keys = Append(@, key),
                        !.dup = MapPut(@, key, path),
                        !.convo = Append(@, idx[key.speaker][key.key])],
                    idx, path, Tail(keys))

\* `for leaf in anno_leaves`
RECURSIVE attach_leaves(_, _, _, _)
attach_leaves(ts, idx, leaves, dup) ==
    IF leaves = <<>> \/ ts.status # "ok" THEN ts
    ELSE LET leaf == Head(leaves)
             acc == attach_keys([status |-> "ok", log |-> ts.log, dup |-> dup,
                                 filtered_keys |-> <<>>, convo |-> <<>>],
                                idx, ts.heap[leaf].path, ts.heap[leaf].keys)
         IN  IF acc.status # "ok"
             THEN [ts EXCEPT !.status = acc.status, !.log = acc.log]
             ELSE attach_leaves([ts EXCEPT !.log = acc.log,
                                           !.heap[leaf].keys = acc.filtered_keys,
                                           !.heap[leaf].convo = acc.convo],
                                idx, Tail(leaves), acc.dup)

attach_meeting_notes(ts, idx, root) ==
    attach_leaves(ts, idx, discover_anno_leaves(ts.heap, root), EmptyMap)

----------------------------------------------------------------------------
(* ICSIDataset.get_parent_path, delete_anno_leaf, finalize_anno_tree *)

\* ".".join(path.split(".")[:-1]): the path without its last segment
get_parent_path(path) == SubSeq(path, 1, Len(path) - 1)

\* a faulty variant: the leaf leaves the index but stays in the child list
delete_anno_leaf_index_only(ts, path) ==
    IF path \notin DOMAIN ts.anno_index \/ get_parent_path(path) \notin DOMAIN ts.anno_index
    THEN [ts EXCEPT !.status = "KeyError: path"]
    ELSE [ts EXCEPT !.anno_index = MapDel(@, path)]

delete_anno_leaf(ts, path) ==
    LET parent_path == get_parent_path(path)
    IN  IF path \notin DOMAIN ts.anno_index \/ parent_path \notin DOMAIN ts.anno_index
        THEN [ts EXCEPT !.status = "KeyError: path"]
        ELSE LET parent == ts.anno_index[parent_path]
                 Keep(c) == ts.heap[c].path # path
                 kept == SelectSeq(ts.heap[parent].nn, Keep)
             IN  [ts EXCEPT !.heap[parent].nn = kept,
                            !.log = IF kept = <<>>
                                    THEN @ \cup {"Parent node now has no children"}
                                    ELSE @,
                            !.anno_index = MapDel(@, path)]

\* `for leaf in anno_leaves: if not leaf.keys: delete_anno_leaf(...)`
RECURSIVE finalize_leaves(_, _)
finalize_leaves(ts, leaves) ==
    IF leaves = <<>> \/ ts.status # "ok" THEN ts
    ELSE IF ts.heap[Head(leaves)].keys = <<>>
         THEN finalize_leaves(delete_anno_leaf(ts, ts.heap[Head(leaves)].path), Tail(leaves))
         ELSE finalize_leaves(ts, Tail(leaves))

\* a faulty variant: no leaf is deleted
finalize_anno_tree_skipped(ts, root) == ts

finalize_anno_tree(ts, root) == finalize_leaves(ts, discover_anno_leaves(ts.heap, root))

----------------------------------------------------------------------------
(* compose_meeting_notes: the flattened notes and the raw transitions *)

\* a faulty variant: prev_leaf_id is never updated
RECURSIVE compose_convo_prev_kept(_, _, _)
compose_convo_prev_kept(acc, leaf_id, convo) ==
    IF convo = <<>> THEN acc
    ELSE compose_convo_prev_kept(
            [notes |-> Append(acc.notes, Head(convo)),
             raw |-> Append(acc.raw, IF leaf_id # acc.prev_leaf_id THEN 1 ELSE 0),
             prev_leaf_id |-> acc.prev_leaf_id],
            leaf_id, Tail(convo))

\* `for utt in leaf.convo`: acc carries notes, raw_transitions, prev_leaf_id
RECURSIVE compose_convo(_, _, _)
compose_convo(acc, leaf_id, convo) ==
    IF convo = <<>> THEN acc
    ELSE compose_convo(
            [notes |-> Append(acc.notes, Head(convo)),
             raw |-> Append(acc.raw, IF leaf_id # acc.prev_leaf_id THEN 1 ELSE 0),
             prev_leaf_id |-> leaf_id],
            leaf_id, Tail(convo))

\* `for leaf_id, leaf in enumerate(anno_leaves)`
RECURSIVE compose_leaves(_, _, _, _)
compose_leaves(h, leaves, leaf_id, acc) ==
    IF leaves = <<>> THEN acc
    ELSE compose_leaves(h, Tail(leaves), leaf_id + 1,
                        compose_convo(acc, leaf_id, h[Head(leaves)].convo))

compose_meeting_notes(h, root) ==
    compose_leaves(h, discover_anno_leaves(h, root), 0,
                   [notes |-> <<>>, raw |-> <<>>, prev_leaf_id |-> 0])

----------------------------------------------------------------------------
(* The ICSI load: load_dataset (load_all_utterances, load_anno_tree) and   *)
(* compose_meeting_notes for one meeting.  The topic document and the      *)
(* per-speaker utterance tables returned by load_meeting_utterances are    *)
(* drawn from bounded sets.  Speaker "A" has a segment file with up to two *)
(* utterances, speaker "B" is present with one utterance or absent.        *)

Utt(sp, k) == [speaker |-> sp, key |-> k]
\* "id(a)" when a = b, "id(a)..id(b)" otherwise
Href(sp, a, b) == [speaker |-> sp, first |-> a, last |-> b, dots |-> a # b]

\* "id(a)..id(b)", also when a = b
HrefDots(sp, a, b) == [speaker |-> sp, first |-> a, last |-> b, dots |-> TRUE]

HrefsICSI == {Href("A", 1, 1), Href("A", 2, 2), Href("B", 1, 1), Href("A", 1, 2)}

UtteranceTablesICSI ==
    LET forA == {<<>>, <<Utt("A", 1)>>, <<Utt("A", 1), Utt("A", 2)>>}
    IN  {[sp \in {"A"} |-> a] : a \in forA}
        \cup {[sp \in {"A", "B"} |-> IF sp = "A" THEN a ELSE <<Utt("B", 1)>>] : a \in forA}

\* documents with an element that has no href and is no topic: a pointer,
\* a child without href, a "subtopic", a pointer inside a topic
NoHrefDocs ==
    LET el(d, t) == [depth |-> d, tag |-> t, href |-> NoHref]
        ref(d) == [depth |-> d, tag |-> "child", href |-> Href("A", 1, 1)]
    IN  {<<XmlRoot, el(1, "pointer"), ref(1)>>,
         <<XmlRoot, ref(1), el(1, "child")>>,
         <<XmlRoot, el(1, "subtopic"), ref(2)>>,
         <<XmlRoot, ref(1), el(1, "topic"), el(2, "pointer")>>}

InitICSI ==
    /\ NoBaseline
    /\ pc = "load_all_utterances"
    /\ status = "ok"
    /\ log = {}
    /\ MIN_SEGMENT_SIZE = DefaultMinSegmentSize
    /\ notes = <<>>
    /\ raw_transitions = <<>>
    /\ transitions = <<>>
    /\ dialect = "icsi"
    /\ xml \in XmlDocs({"topic", "child"}, HrefsICSI) \cup NoHrefDocs
    /\ utterances \in UtteranceTablesICSI
    /\ index = EmptyMap
    /\ heap = <<>>
    /\ anno_root = 0
    /\ anno_index = EmptyMap
    /\ NoWords

\* the tree state of the variables, and its write-back after a pass
CurrentTree == TreeState(heap, anno_index, status, log)

ApplyTree(ts, next_pc) ==
    /\ heap' = ts.heap
    /\ anno_index' = ts.anno_index
    /\ status' = ts.status
    /\ log' = ts.log
    /\ pc' = IF ts.status = "ok" THEN next_pc ELSE "aborted"

\* load_all_utterances; min() of an empty entry list raises ValueError
ICSILoadAllUtterances ==
    /\ pc = "load_all_utterances"
    /\ dialect = "icsi"
    /\ index' = load_all_utterances(utterances)
    /\ IF ConcatTables(utterances, DOMAIN utterances) = <<>>
       THEN status' = "ValueError: min of empty" /\ pc' = "aborted"
       ELSE status' = status /\ pc' = "build_anno"
    /\ UNCHANGED <<baseVars, log, smoothVars, dialect, xml, utterances, heap, anno_root, anno_index, wordVars>>

ICSIBuildAnno ==
    /\ pc = "build_anno"
    /\ dialect = "icsi"
    /\ LET r == icsi_build_anno(CurrentTree, xml, 1)
       IN  /\ ApplyTree(r.ts, "normalize_anno_tree")
           /\ anno_root' = IF r.ts.status = "ok" THEN r.id ELSE anno_root
    /\ UNCHANGED <<baseVars, smoothVars, dialect, xml, utterances, index, wordVars>>

ICSINormalize ==
    /\ pc = "normalize_anno_tree"
    /\ ApplyTree(normalize_anno_tree(CurrentTree, RootPath, anno_root),
                 "attach_meeting_notes")
    /\ UNCHANGED <<baseVars, smoothVars, dialect, xml, utterances, index, anno_root, wordVars>>

ICSIAttach ==
    /\ pc = "attach_meeting_notes"
    /\ ApplyTree(attach_meeting_notes(CurrentTree, index, anno_root),
                 "finalize_anno_tree")
    /\ UNCHANGED <<baseVars, smoothVars, dialect, xml, utterances, index, anno_root, wordVars>>

ICSIFinalize ==
    /\ pc = "finalize_anno_tree"
    /\ ApplyTree(finalize_anno_tree(CurrentTree, anno_root), "compose_meeting_notes")
    /\ UNCHANGED <<baseVars, smoothVars, dialect, xml, utterances, index, anno_root, wordVars>>

\* compose_meeting_notes, the same code in both loaders
Compose ==
    /\ pc = "compose_meeting_notes"
    /\ LET r == compose_meeting_notes(heap, anno_root)
       IN  /\ notes' = r.notes
           /\ raw_transitions' = r.raw
           /\ transitions' = smooth_transitions(r.raw, MIN_SEGMENT_SIZE)
    /\ pc' = "done"
    /\ UNCHANGED <<baseVars, status, log, MIN_SEGMENT_SIZE, treeVars, wordVars>>

NextICSI ==
    \/ ICSILoadAllUtterances
    \/ ICSIBuildAnno
    \/ ICSINormalize
    \/ ICSIAttach
    \/ ICSIFinalize
    \/ Compose

SpecICSI == InitICSI /\ [][NextICSI]_vars

----------------------------------------------------------------------------
(* AMIDataset.load_meeting_words.  A text is the sequence of its           *)
(* characters.  A word file is the sequence of its elements, each with its *)
(* key, its text (empty: a non-verbal element) and its times.              *)

NoneWord == [none |-> TRUE, text |-> <<>>, lspace |-> FALSE, rspace |-> FALSE,
             start |-> 0, end |-> 0]

IsNone(w) == w.none

\* texts that lose their left space: `if text in [".", ",", "?", "!"]`
AmiNoLeftSpace == {<<".">>, <<",">>, <<"?">>, <<"!">>}

\* the characters str.lstrip() and str.rstrip() remove, among those up to
\* U+00FF that the text of an XML 1.0 element can hold: space, tab, line
\* feed, carriage return, next line (U+0085) and no-break space (U+00A0);
\* a text of the model holds no character beyond U+00FF
Whitespace == {" ", "\t", "\n", "\r", "", " "}

\* text.lstrip() and text.rstrip(): the text without the whitespace at its
\* front and at its back
RECURSIVE lstrip(_)
lstrip(text) == IF text # <<>> /\ Head(text) \in Whitespace THEN lstrip(Tail(text)) ELSE text

RECURSIVE rstrip(_)
rstrip(text) ==
    IF text # <<>> /\ text[Len(text)] \in Whitespace
    THEN rstrip(SubSeq(text, 1, Len(text) - 1))
    ELSE text

\* `if text:` holds for every text that is not absent, a blank one included
ami_make_word(elem) ==
    IF elem.text = <<>> THEN NoneWord
    ELSE LET text == rstrip(lstrip(elem.text))
         IN  [none |-> FALSE, text |-> text,
              lspace |-> text \notin AmiNoLeftSpace, rspace |-> TRUE,
              start |-> elem.starttime, end |-> elem.endtime]

\* "words": one entry per element; "index": key -> 0-based position of the
\* (last) element with that key
load_speaker_words(elems) ==
    [words |-> [i \in 1..Len(elems) |-> ami_make_word(elems[i])],
     index |-> [k \in {elems[i].key : i \in 1..Len(elems)} |->
                  (CHOOSE i \in 1..Len(elems) :
                      /\ elems[i].key = k
                      /\ \A j \in 1..Len(elems) : elems[j].key = k => j <= i) - 1]]

\* `assert len(index) == len(root)` fails for a file that repeats a key;
\* `assert len(words) == len(root)` holds for every file
ami_load_meeting_words(files) ==
    LET loaded == [sp \in DOMAIN files |-> load_speaker_words(files[sp])]
    IN  IF \E sp \in DOMAIN files :
                Cardinality(DOMAIN loaded[sp].index) # Len(files[sp])
        THEN [status |-> "AssertionError", words |-> EmptyMap]
        ELSE [status |-> "ok", words |-> loaded]

----------------------------------------------------------------------------
(* AMIDataset.mint_utterance, segment_to_utterances *)

\* a faulty variant: only the full stop ends a sentence
SentenceEnd_full_stop_only == {"."}

SentenceEnd == {".", "!", "?"}

\* the text loop of mint_utterance: a space goes between two words when
\* the right one has lspace and the left one had rspace
RECURSIVE mint_text(_, _, _)
mint_text(utt_words, utt_text, rspace) ==
    IF utt_words = <<>> THEN utt_text
    ELSE LET w == Head(utt_words)
         IN  mint_text(Tail(utt_words),
                       (IF w.lspace /\ rspace THEN utt_text \o <<" ">> ELSE utt_text)
                            \o w.text,
                       w.rspace)

mint_utterance(utt_content, speaker, meeting, utt_words) ==
    [key |-> utt_content, speaker |-> speaker, meeting |-> meeting,
     start |-> utt_words[1].start, end |-> utt_words[Len(utt_words)].end,
     text |-> mint_text(utt_words, <<>>, FALSE)]

\* `for i in range(start_idx, end_idx + 1)` over 0-based positions: acc
\* carries the utterances emitted so far and the open utt_words
RECURSIVE split_range(_, _, _, _, _)
split_range(ws, href, i, end_idx, acc) ==
    IF i > end_idx
    THEN IF acc.utt_words # <<>>
         THEN Append(acc.utterances,
                     mint_utterance(href, href.speaker, "m", acc.utt_words))
         ELSE acc.utterances
    ELSE LET word == ws[i + 1]
         IN  IF IsNone(word) THEN split_range(ws, href, i + 1, end_idx, acc)
             ELSE LET uw == Append(acc.utt_words, word)
                  IN  IF word.text[Len(word.text)] \in SentenceEnd
                      THEN split_range(ws, href, i + 1, end_idx,
                               [utterances |-> Append(acc.utterances,
                                    mint_utterance(href, href.speaker, "m", uw)),
                                utt_words |-> <<>>])
                      ELSE split_range(ws, href, i + 1, end_idx,
                               [utterances |-> acc.utterances, utt_words |-> uw])

\* word["text"][-1] of a word whose stripped text is empty raises
\* IndexError when the range loop reaches it
HasEmptyText(ws, start_idx, end_idx) ==
    \E i \in start_idx..end_idx : ~IsNone(ws[i + 1]) /\ ws[i + 1].text = <<>>

\* ".." in utt_content
IsRange(href) == href.dots

\* the utterances of one entry; a missing speaker or key is a KeyError
entry_utterances(wds, href) ==
    IF href.speaker \notin DOMAIN wds
        \/ href.first \notin DOMAIN wds[href.speaker].index
        \/ href.last \notin DOMAIN wds[href.speaker].index
    THEN [status |-> "KeyError: word", utterances |-> <<>>]
    ELSE LET wi == wds[href.speaker]
         IN  IF IsRange(href) /\ HasEmptyText(wi.words, wi.index[href.first], wi.index[href.last])
             THEN [status |-> "IndexError: text", utterances |-> <<>>]
             ELSE IF IsRange(href)
             THEN [status |-> "ok",
                   utterances |-> split_range(wi.words, href, wi.index[href.first],
                                      wi.index[href.last],
                                      [utterances |-> <<>>, utt_words |-> <<>>])]
             ELSE LET word == wi.words[wi.index[href.first] + 1]
                  IN  [status |-> "ok",
                       utterances |->
                          IF IsNone(word) THEN <<>>
                          ELSE <<[key |-> href, speaker |-> href.speaker,
                                  meeting |-> "m", start |-> word.start,
                                  end |-> word.end, text |-> word.text]>>]

\* `for entry in entries`; keys = [utt["key"] for utt in utterances]
RECURSIVE segment_to_utterances(_, _)
segment_to_utterances(wds, entries) ==
    IF entries = <<>> THEN [status |-> "ok", keys |-> <<>>, convo |-> <<>>]
    ELSE LET e == entry_utterances(wds, Head(entries))
             r == segment_to_utterances(wds, Tail(entries))
         IN  IF e.status # "ok" THEN [status |-> e.status, keys |-> <<>>, convo |-> <<>>]
             ELSE [status |-> r.status,
                   keys |-> [k \in 1..Len(e.utterances) |-> e.utterances[k].key] \o r.keys,
                   convo |-> e.utterances \o r.convo]

----------------------------------------------------------------------------
(* AMIDataset.build_anno *)

\* a faulty variant: a run ends after its first entry
ChildRun_one(x, children) == 1

\* length of the run of entries whose tag holds "child" at the front of
\* children
RECURSIVE ChildRun(_, _)
ChildRun(x, children) ==
    IF children # <<>> /\ TagHolds(x[Head(children)].tag, "child")
    THEN 1 + ChildRun(x, Tail(children)) ELSE 0

RECURSIVE ami_build_anno(_, _, _, _, _)
RECURSIVE ami_build_loop(_, _, _, _, _, _)

\* the `while children` loop of the node with id `id`
ami_build_loop(ts, wds, x, id, children, branch_id) ==
    IF ts.status # "ok" \/ children = <<>> THEN ts
    ELSE LET c == Head(children)
             path == ts.heap[id].path
         IN  IF TagHolds(x[c].tag, "pointer")
             THEN ami_build_loop(ts, wds, x, id, Tail(children), branch_id)
             ELSE IF TagHolds(x[c].tag, "topic")
             THEN LET r == ami_build_anno(ts, wds, ChildPath(path, branch_id), x, c)
                      t2 == [r.ts EXCEPT !.heap[id].nn = Append(@, r.id)]
                  IN  IF r.ts.status # "ok" THEN r.ts
                      ELSE ami_build_loop(t2, wds, x, id, Tail(children), branch_id + 1)
             ELSE IF TagHolds(x[c].tag, "child")
             THEN LET n == ChildRun(x, children)
                      segments == [k \in 1..n |-> x[children[k]].href]
                      rest == SubSeq(children, n + 1, Len(children))
                      su == segment_to_utterances(wds, segments)
                  IN  IF su.status # "ok" THEN [ts EXCEPT !.status = su.status]
                      ELSE IF su.keys = <<>> THEN [ts EXCEPT !.status = "NodeNoKeys"]
                      ELSE IF ~ts.heap[id].is_leaf
                      THEN LET tid == NewId(ts)
                               t1 == Alloc(ts, [AnnoTreeNode EXCEPT
                                        !.keys = su.keys, !.convo = su.convo,
                                        !.tag = "leaf",
                                        !.path = ChildPath(path, branch_id),
                                        !.is_leaf = TRUE])
                               t2 == register_anno_node(t1, tid)
                               t3 == [t2 EXCEPT !.heap[id].nn = Append(@, tid)]
                           IN  ami_build_loop(t3, wds, x, id, rest, branch_id + 1)
                      ELSE [ts EXCEPT !.heap[id].keys = su.keys,
                                      !.heap[id].convo = su.convo]
             ELSE [ts EXCEPT !.status = "NonSupportedNodetype"]

ami_build_anno(ts, wds, path, x, i) ==
    LET id == NewId(ts)
        children == XmlChildren(x, i)
        is_leaf == \A k \in 1..Len(children) : x[children[k]].tag # "topic"
        t1 == Alloc(ts, [AnnoTreeNode EXCEPT
                            !.path = path, !.is_leaf = is_leaf,
                            !.tag = IF TagHolds(x[i].tag, "root") THEN "root"
                                    ELSE IF is_leaf THEN "leaf" ELSE "topic"])
        t2 == register_anno_node(t1, id)
        t3 == ami_build_loop(t2, wds, x, id, children, 0)
    IN  [id |-> id,
         ts |-> IF t3.status = "ok" /\ t3.heap[id].is_leaf /\ t3.heap[id].keys = <<>>
                THEN [t3 EXCEPT !.status = "NodeNoKeys"]
                ELSE t3]

----------------------------------------------------------------------------
(* The AMI load: load_dataset (load_all_words, load_anno_tree) and         *)
(* compose_meeting_notes for one meeting with one speaker, whose word file *)
(* holds two elements.                                                     *)

WordElem(k, txt, pos) == [key |-> k, text |-> txt, starttime |-> 10 * pos, endtime |-> 10 * pos + 5]

\* texts of a word element: none (non-verbal), a word, a word closing a
\* sentence, a full stop
AmiTexts == {<<>>, <<"a">>, <<"b", ".">>, <<".">>}

\* word files of two elements with the keys 101 and 102, and one file
\* that repeats the key 101
AmiWordFiles ==
    {[sp \in {"A"} |-> <<WordElem(101, t1, 1), WordElem(102, t2, 2)>>] :
        t1 \in AmiTexts, t2 \in AmiTexts}
    \cup {[sp \in {"A"} |-> <<WordElem(101, <<"a">>, 1), WordElem(101, <<"b", ".">>, 2)>>]}

HrefsAMI == {Href("A", 101, 101), Href("A", 102, 102), Href("A", 101, 102)}

\* documents with a "subtopic" element: alone, after a reference written
\* as a range of one key, and before a reference
SubtopicDocs ==
    LET ref(d, h) == [depth |-> d, tag |-> "child", href |-> h]
        sub == [depth |-> 1, tag |-> "subtopic", href |-> NoHref]
    IN  {<<XmlRoot, sub, ref(2, h)>> : h \in HrefsAMI}
        \cup {<<XmlRoot, ref(1, HrefDots("A", 101, 101)), sub, ref(2, h)>> : h \in HrefsAMI}
        \cup {<<XmlRoot, sub, ref(2, h), ref(1, g)>> : h \in HrefsAMI, g \in HrefsAMI}

\* documents of five elements whose root holds a topic with a reference and
\* two references of its own: the two before the topic, the two after it,
\* and one on either side
RunDocs ==
    LET ref(d, h) == [depth |-> d, tag |-> "child", href |-> h]
        topic == [depth |-> 1, tag |-> "topic", href |-> NoHref]
    IN  UNION {{<<XmlRoot, ref(1, h1), ref(1, h2), topic, ref(2, g)>>,
                <<XmlRoot, topic, ref(2, g), ref(1, h1), ref(1, h2)>>,
                <<XmlRoot, ref(1, h1), topic, ref(2, g), ref(1, h2)>>} :
                    h1 \in HrefsAMI, h2 \in HrefsAMI, g \in HrefsAMI}

InitAMI ==
    /\ NoBaseline
    /\ pc = "load_all_words"
    /\ status = "ok"
    /\ log = {}
    /\ MIN_SEGMENT_SIZE = DefaultMinSegmentSize
    /\ notes = <<>>
    /\ raw_transitions = <<>>
    /\ transitions = <<>>
    /\ dialect = "ami"
    /\ xml \in XmlDocs({"topic", "pointer", "child"}, HrefsAMI) \cup SubtopicDocs \cup RunDocs
    /\ utterances = EmptyMap
    /\ index = EmptyMap
    /\ heap = <<>>
    /\ anno_root = 0
    /\ anno_index = EmptyMap
    /\ word_xml \in AmiWordFiles
    /\ words = EmptyMap
    /\ NoSegs

AMILoadAllWords ==
    /\ pc = "load_all_words"
    /\ dialect = "ami"
    /\ LET r == ami_load_meeting_words(word_xml)
       IN  /\ words' = r.words
           /\ status' = r.status
           /\ pc' = IF r.status = "ok" THEN "build_anno" ELSE "aborted"
    /\ UNCHANGED <<baseVars, log, smoothVars, treeVars, word_xml, segs, utt_refs, quote_stacks>>

AMIBuildAnno ==
    /\ pc = "build_anno"
    /\ dialect = "ami"
    /\ LET r == ami_build_anno(CurrentTree, words, RootPath, xml, 1)
       IN  IF r.ts.status = "ok"
           THEN ApplyTree(r.ts, "compose_meeting_notes") /\ anno_root' = r.id
           ELSE /\ status' = r.ts.status
                /\ log' = r.ts.log
                /\ pc' = "aborted"
                /\ UNCHANGED <<heap, anno_root, anno_index>>
    /\ UNCHANGED <<baseVars, smoothVars, dialect, xml, utterances, index, wordVars>>

NextAMI ==
    \/ AMILoadAllWords
    \/ AMIBuildAnno
    \/ Compose

SpecAMI == InitAMI /\ [][NextAMI]_vars

\* both loaders
InitTree == InitICSI \/ InitAMI

NextTree ==
    \/ ICSILoadAllUtterances
    \/ ICSIBuildAnno
    \/ ICSINormalize
    \/ ICSIAttach
    \/ ICSIFinalize
    \/ AMILoadAllWords
    \/ AMIBuildAnno
    \/ Compose

SpecTree == InitTree /\ [][NextTree]_vars

----------------------------------------------------------------------------
(* ICSIDataset.make_word_entry.  The missing "c" attribute (word_type is   *)
(* None) is the type "NONE"; a discarded entry (the function returns None) *)
(* is NoneEntry.  An entry that becomes an utterance gains the fields      *)
(* speaker, key, start and end, unset (is_utt FALSE) until then, and the   *)
(* field sot when load_all_utterances indexes it (NoTime until then).      *)

\* a time that is None, a field of time that is not set
NoTime == -1

NoneEntry == [none |-> TRUE, tag |-> "NONE", lspace |-> FALSE, rspace |-> FALSE,
              text |-> <<>>, is_utt |-> FALSE, speaker |-> "", key |-> 0,
              start |-> 0, end |-> 0, sot |-> NoTime]

WordEntry(word_type, text) ==
    [none |-> FALSE, tag |-> word_type, lspace |-> TRUE, rspace |-> TRUE,
     text |-> text, is_utt |-> FALSE, speaker |-> "", key |-> 0,
     start |-> 0, end |-> 0, sot |-> NoTime]

\* what make_word_entry hands back: the entry, the quote stack as the call
\* left it, whether it raised, and what it logged
Made(entry, quote_stack) ==
    [entry |-> entry, quote_stack |-> quote_stack, raised |-> FALSE, log |-> {}]

\* the branch shared by LQUOTE, RQUOTE and QUOTE when text == "'"
LoneApostrophe(entry) ==
    [entry EXCEPT !.tag = "APOSS", !.lspace = FALSE, !.rspace = FALSE]

\* a faulty variant: an ambiguous quote always opens
ambiguous_quote_type_always_left(quote_stack) == "LQUOTE"

\* `if not quote_stack: ... "LQUOTE" ... else: ... "RQUOTE"`
ambiguous_quote_type(quote_stack) == IF quote_stack = <<>> THEN "LQUOTE" ELSE "RQUOTE"

RECURSIVE make_word_entry(_, _, _)
make_word_entry(word_type, text, quote_stack) ==
    LET entry == WordEntry(word_type, text)
    IN  IF word_type \in {"W", "TRUNCW"}
        THEN IF text[1] = "'" THEN make_word_entry("APOSS", text, quote_stack)
             ELSE Made(entry, quote_stack)
        ELSE IF word_type \in {"ABBR", "LET", "CD"} THEN Made(entry, quote_stack)
        ELSE IF word_type = "SYM"
        THEN IF text = <<"-">> THEN make_word_entry("HYPH", text, quote_stack)
             ELSE Made(NoneEntry, quote_stack)
        ELSE IF word_type = "HYPH"
        THEN Made([entry EXCEPT !.lspace = FALSE, !.rspace = FALSE], quote_stack)
        ELSE IF word_type \in {"CM", ".", "APOSS"}
        THEN Made([entry EXCEPT !.lspace = FALSE], quote_stack)
        ELSE IF word_type = "LQUOTE"
        THEN IF text = <<"'">> THEN Made(LoneApostrophe(entry), quote_stack)
             ELSE Made([entry EXCEPT !.rspace = FALSE], Append(quote_stack, "LEFT"))
        ELSE IF word_type = "RQUOTE"
        THEN IF text = <<"'">> THEN Made(LoneApostrophe(entry), quote_stack)
             ELSE IF quote_stack = <<>>
                  THEN [Made([entry EXCEPT !.lspace = FALSE], quote_stack)
                            EXCEPT !.log = {"Mismatched quotes"}]
                  ELSE Made([entry EXCEPT !.lspace = FALSE],
                            SubSeq(quote_stack, 1, Len(quote_stack) - 1))
        ELSE IF word_type = "QUOTE"
        THEN IF text = <<"'">> THEN Made(LoneApostrophe(entry), quote_stack)
             ELSE make_word_entry(ambiguous_quote_type(quote_stack), text, quote_stack)
        ELSE IF word_type = "NONE" THEN Made(NoneEntry, quote_stack)
        ELSE [Made(NoneEntry, quote_stack) EXCEPT !.raised = TRUE]

----------------------------------------------------------------------------
(* ICSIDataset.load_meeting_words *)

\* `for child in root` of one speaker's word file: acc carries the words,
\* the index, the quote stack, the log and whether an entry raised
RECURSIVE icsi_load_words(_, _)
icsi_load_words(elems, acc) ==
    IF elems = <<>> \/ acc.raised THEN acc
    ELSE LET child == Head(elems)
             m == make_word_entry(child.c, child.text, acc.quote_stack)
         IN  IF m.raised
             THEN [acc EXCEPT !.quote_stack = m.quote_stack,
                              !.log = @ \cup m.log,
                              !.raised = TRUE]
             ELSE icsi_load_words(Tail(elems),
                    [words |-> Append(acc.words, m.entry),
                     index |-> MapPut(acc.index, child.key, Len(acc.words)),
                     quote_stack |-> m.quote_stack,
                     log |-> acc.log \cup m.log,
                     raised |-> FALSE])

\* one speaker's file: the loop, then `assert len(index) == len(root)`,
\* which fails for a file that repeats a key
icsi_load_speaker_words(elems) ==
    LET r == icsi_load_words(elems, [words |-> <<>>, index |-> EmptyMap,
                                     quote_stack |-> <<>>, log |-> {}, raised |-> FALSE])
    IN  [words |-> r.words, index |-> r.index, quote_stack |-> r.quote_stack,
         log |-> r.log,
         raised |-> r.raised \/ Cardinality(DOMAIN r.index) # Len(elems),
         status |-> IF r.raised THEN "UnsupportedType"
                    ELSE IF Cardinality(DOMAIN r.index) # Len(elems) THEN "AssertionError"
                    ELSE "ok"]

----------------------------------------------------------------------------
(* ICSIDataset.absorb_token, load_meeting_utterances.  The utterance that  *)
(* absorb_token returns for the first token IS that token's dict, so the   *)
(* utterance under construction is a position in the word list (uref, -1   *)
(* for None) and absorbing writes to the word at that position.            *)

\* a faulty variant: the token's lspace flag is not consulted
absorb_token_lspace_ignored(ws, uref, t) ==
    IF uref = -1 THEN [ws |-> ws, uref |-> t]
    ELSE LET utterance == ws[uref + 1]
             token == ws[t + 1]
             suffix == (IF utterance.rspace THEN <<" ">> ELSE <<>>) \o token.text
         IN  [ws |-> [ws EXCEPT ![uref + 1].text = @ \o suffix,
                                ![uref + 1].rspace = token.rspace],
              uref |-> uref]

absorb_token(ws, uref, t) ==
    IF uref = -1 THEN [ws |-> ws, uref |-> t]
    ELSE LET utterance == ws[uref + 1]
             token == ws[t + 1]
             spaced == utterance.rspace /\ token.lspace
             suffix == (IF spaced THEN <<" ">> ELSE <<>>) \o token.text
         IN  [ws |-> [ws EXCEPT ![uref + 1].text = @ \o suffix,
                                ![uref + 1].rspace = token.rspace],
              uref |-> uref]

\* `for t in range(start_idx, end_idx + 1)`
RECURSIVE absorb_range(_, _, _, _)
absorb_range(ws, uref, t, end_idx) ==
    IF t > end_idx THEN [ws |-> ws, uref |-> uref]
    ELSE IF IsNone(ws[t + 1]) THEN absorb_range(ws, uref, t + 1, end_idx)
    ELSE LET a == absorb_token(ws, uref, t)
         IN  absorb_range(a.ws, a.uref, t + 1, end_idx)

\* a faulty variant: a segment that composes to nothing ends the load
load_segment_strict(acc, wi, speaker, seg) ==
    IF seg.first \notin DOMAIN wi.index \/ seg.last \notin DOMAIN wi.index
    THEN [acc EXCEPT !.status = "KeyError: word"]
    ELSE LET r == absorb_range(acc.ws, -1, wi.index[seg.first], wi.index[seg.last])
         IN  IF r.uref = -1 THEN [acc EXCEPT !.status = "EmptyUtterance"]
             ELSE LET marked == [r.ws EXCEPT ![r.uref + 1].is_utt = TRUE,
                                             ![r.uref + 1].speaker = speaker,
                                             ![r.uref + 1].key = seg.id,
                                             ![r.uref + 1].start = seg.starttime,
                                             ![r.uref + 1].end = seg.endtime]
                  IN  IF seg.endtime # NoTime
                      THEN [acc EXCEPT !.ws = marked, !.refs = Append(@, r.uref)]
                      ELSE IF seg.starttime = NoTime
                      THEN [acc EXCEPT !.ws = marked, !.status = "TypeError: None + float"]
                      ELSE [acc EXCEPT
                             !.ws = [marked EXCEPT ![r.uref + 1].end = seg.starttime + 1],
                             !.refs = Append(@, r.uref)]

\* one iteration of `for seg in segs`: acc carries the speaker's word list,
\* the utterance list (positions) and the status.  A composed utterance
\* gets speaker, key, start and end written to its word object, an empty
\* starttime or endtime as None; a missing end is then start + 1.0, which
\* raises TypeError when the start is missing too, before the append
load_segment(acc, wi, speaker, seg) ==
    IF seg.first \notin DOMAIN wi.index \/ seg.last \notin DOMAIN wi.index
    THEN [acc EXCEPT !.status = "KeyError: word"]
    ELSE LET r == absorb_range(acc.ws, -1, wi.index[seg.first], wi.index[seg.last])
         IN  IF r.uref = -1 THEN acc
             ELSE LET marked == [r.ws EXCEPT ![r.uref + 1].is_utt = TRUE,
                                             ![r.uref + 1].speaker = speaker,
                                             ![r.uref + 1].key = seg.id,
                                             ![r.uref + 1].start = seg.starttime,
                                             ![r.uref + 1].end = seg.endtime]
                  IN  IF seg.endtime # NoTime
                      THEN [acc EXCEPT !.ws = marked, !.refs = Append(@, r.uref)]
                      ELSE IF seg.starttime = NoTime
                      THEN [acc EXCEPT !.ws = marked, !.status = "TypeError: None + float"]
                      ELSE [acc EXCEPT
                             !.ws = [marked EXCEPT ![r.uref + 1].end = seg.starttime + 1],
                             !.refs = Append(@, r.uref)]

RECURSIVE load_segments(_, _, _, _)
load_segments(acc, wi, speaker, sgs) ==
    IF sgs = <<>> \/ acc.status # "ok" THEN acc
    ELSE load_segments(load_segment(acc, wi, speaker, Head(sgs)), wi, speaker, Tail(sgs))

\* the utterances of one speaker that has a segment file
speaker_utterances(wi, speaker, sgs) ==
    load_segments([ws |-> wi.words, refs |-> <<>>, status |-> "ok"], wi, speaker, sgs)

----------------------------------------------------------------------------
(* The ICSI word and segment load for one meeting with one speaker:        *)
(* load_all_words, then load_meeting_utterances.  The word file holds up   *)
(* to MaxWords elements; the segment file is missing or holds up to two    *)
(* segments, each with a key range first..last into the word file.         *)

\* most elements of a word file
MaxWords == 3

IcsiElem(k, c, txt) == [key |-> k, c |-> c, text |-> txt]

\* 0-based position p has the key 101 + p
WordKey(p) == 101 + p

IcsiWordFilesOver(kinds) ==
    UNION {{[sp \in {"A"} |-> [i \in 1..n |-> IcsiElem(WordKey(i - 1), f[i][1], f[i][2])]] :
                f \in [1..n -> kinds]} : n \in 1..MaxWords}

\* element kinds of the segment specification: a non-verbal element, a word,
\* a full stop, a discarded symbol
SegElemKinds == {<<"NONE", <<>>>>, <<"W", <<"a">>>>, <<".", <<".">>>>, <<"SYM", <<"@">>>>}

\* the k-th segment of a file, over the keys a..b; its starttime and its
\* endtime attribute may each be empty
Seg(k, a, b, started, ended) ==
    [id |-> 200 + k,
     starttime |-> IF started THEN 10 * k ELSE NoTime,
     endtime |-> IF ended THEN 10 * k + 5 ELSE NoTime,
     first |-> a, last |-> b]

KeyRanges(n) == {<<WordKey(a), WordKey(b)>> : a \in 0..(n - 1), b \in 0..(n - 1)}

SegLists(n) ==
    LET ranges == {r \in KeyRanges(n) : r[1] <= r[2]}
    IN  {<<>>}
        \cup {<<Seg(1, r[1], r[2], started, ended)>> :
                    r \in ranges, started \in BOOLEAN, ended \in BOOLEAN}
        \cup {<<Seg(1, r[1], r[2], started, TRUE), Seg(2, q[1], q[2], TRUE, TRUE)>> :
                    r \in ranges, q \in ranges, started \in BOOLEAN}

SegFiles(n) == {EmptyMap} \cup {[sp \in {"A"} |-> l] : l \in SegLists(n)}

\* a word file that repeats the key 101
RepeatedKeyFile ==
    [sp \in {"A"} |-> <<IcsiElem(101, "W", <<"a">>), IcsiElem(101, "W", <<"a">>)>>]

InitSegs ==
    /\ NoBaseline
    /\ pc = "load_all_words"
    /\ status = "ok"
    /\ log = {}
    /\ MIN_SEGMENT_SIZE = DefaultMinSegmentSize
    /\ notes = <<>>
    /\ raw_transitions = <<>>
    /\ transitions = <<>>
    /\ dialect = "icsi"
    /\ xml = <<>>
    /\ utterances = EmptyMap
    /\ index = EmptyMap
    /\ heap = <<>>
    /\ anno_root = 0
    /\ anno_index = EmptyMap
    /\ word_xml \in IcsiWordFilesOver(SegElemKinds) \cup {RepeatedKeyFile}
    /\ segs \in SegFiles(Len(word_xml["A"]))
    /\ words = EmptyMap
    /\ utt_refs = EmptyMap
    /\ quote_stacks = EmptyMap

\* load_all_words: one table per speaker that has a word file; when a
\* file raises, self.words[meeting] is never assigned.  The word files of
\* the model have one speaker, so at most one file raises.
ICSILoadAllWords ==
    /\ pc = "load_all_words"
    /\ dialect = "icsi"
    /\ LET loaded == [sp \in DOMAIN word_xml |-> icsi_load_speaker_words(word_xml[sp])]
           failed == {sp \in DOMAIN loaded : loaded[sp].raised}
       IN  /\ words' = IF failed # {} THEN EmptyMap
                        ELSE [sp \in DOMAIN loaded |->
                                [words |-> loaded[sp].words, index |-> loaded[sp].index]]
           /\ quote_stacks' = [sp \in DOMAIN loaded |-> loaded[sp].quote_stack]
           /\ log' = log \cup UNION {loaded[sp].log : sp \in DOMAIN loaded}
           /\ status' = IF failed # {} THEN loaded[CHOOSE sp \in failed : TRUE].status
                         ELSE status
           /\ pc' = IF failed # {} THEN "aborted" ELSE "load_meeting_utterances"
    /\ UNCHANGED <<baseVars, smoothVars, treeVars, word_xml, segs, utt_refs>>

HasStart(entry) == entry.start # NoTime

\* min([entry["start"] for entry in entries if entry["start"] is not None])
MinStart(entries) ==
    CHOOSE s \in {entries[i].start : i \in 1..Len(entries)} :
        \A i \in 1..Len(entries) : s <= entries[i].start

\* entry["sot"] = sot for every entry: the entries are the word objects
\* at the positions refs
StampSot(ws, refs, sot) ==
    [p \in 1..Len(ws) |->
        IF \E i \in 1..Len(refs) : refs[i] + 1 = p THEN [ws[p] EXCEPT !.sot = sot]
        ELSE ws[p]]

\* load_all_utterances with its call of load_meeting_utterances: a speaker
\* with words but no segment file is logged and left out; the others'
\* segments are composed in order, writing to the word objects they start
\* at, and when a segment raises, the utterance lists made so far are lost
\* with the call; then every speaker with utterances gets an index, min() of
\* no start time raises ValueError, and every entry is stamped with sot and
\* indexed by its key.  The segment files of the model have one speaker, so at
\* most one speaker's segments raise (KeyError or TypeError).
ICSILoadMeetingUtterances ==
    /\ pc = "load_meeting_utterances"
    /\ LET with_segs == DOMAIN words \cap DOMAIN segs
           res == [sp \in with_segs |-> speaker_utterances(words[sp], sp, segs[sp])]
           failed == {sp \in with_segs : res[sp].status # "ok"}
           table(ws) == [sp \in with_segs |->
                            [i \in 1..Len(res[sp].refs) |-> ws[sp][res[sp].refs[i] + 1]]]
           composed == [sp \in with_segs |-> res[sp].ws]
           timed == SelectSeq(ConcatTables(table(composed), with_segs), HasStart)
           stamped == [sp \in with_segs |->
                            StampSot(res[sp].ws, res[sp].refs, MinStart(timed))]
           raises == failed # {} \/ timed = <<>>
           ws_now == IF raises THEN composed ELSE stamped
       IN  /\ words' = [sp \in DOMAIN words |->
                            IF sp \in with_segs
                            THEN [words[sp] EXCEPT !.words = ws_now[sp]]
                            ELSE words[sp]]
           /\ utt_refs' = IF failed # {} THEN utt_refs
                           ELSE [sp \in with_segs |-> res[sp].refs]
           /\ utterances' = IF failed # {} THEN utterances ELSE table(ws_now)
           /\ index' = IF failed # {} THEN index
                        ELSE IF timed = <<>> THEN [sp \in with_segs |-> EmptyMap]
                        ELSE load_all_utterances(table(stamped))
           /\ log' = IF DOMAIN words \ DOMAIN segs # {}
                     THEN log \cup {"Act file not found"} ELSE log
           /\ status' = IF failed # {} THEN res[CHOOSE sp \in failed : TRUE].status
                         ELSE IF timed = <<>> THEN "ValueError: min of empty"
                         ELSE status
           /\ pc' = IF raises THEN "aborted" ELSE "utterances_loaded"
    /\ UNCHANGED <<baseVars, smoothVars, dialect, xml, heap, anno_root, anno_index,
                   word_xml, segs, quote_stacks>>

NextSegs ==
    \/ ICSILoadAllWords
    \/ ICSILoadMeetingUtterances

SpecSegs == InitSegs /\ [][NextSegs]_vars

----------------------------------------------------------------------------
(* The ICSI word load over the token types of make_word_entry, followed by *)
(* the composition of one segment that spans the whole word file.          *)

\* most elements of a word file of this specification
MaxTokens == 3

\* type and text of a word element: words, apostrophe suffixes, the three
\* quote types with a double quote and with a lone apostrophe, hyphens,
\* symbols, a non-verbal element, and a type make_word_entry does not know
TokenKinds ==
    {<<"W", <<"a">>>>, <<"W", <<"'", "s">>>>, <<"APOSS", <<"'", "s">>>>,
     <<"QUOTE", <<"\"">>>>, <<"QUOTE", <<"'">>>>,
     <<"LQUOTE", <<"\"">>>>, <<"LQUOTE", <<"'">>>>,
     <<"RQUOTE", <<"\"">>>>, <<"RQUOTE", <<"'">>>>,
     <<"HYPH", <<"-">>>>, <<"SYM", <<"-">>>>, <<"SYM", <<"@">>>>,
     <<"NONE", <<>>>>, <<"XX", <<"x">>>>}

TokenFiles ==
    UNION {{[sp \in {"A"} |-> [i \in 1..n |-> IcsiElem(WordKey(i - 1), f[i][1], f[i][2])]] :
                f \in [1..n -> TokenKinds]} : n \in 1..MaxTokens}

\* the words "flag" and "sign" around a hyphen of either type
FlagSignFiles ==
    {[sp \in {"A"} |-> <<IcsiElem(WordKey(0), "W", <<"f", "l", "a", "g">>),
                         IcsiElem(WordKey(1), h[1], h[2]),
                         IcsiElem(WordKey(2), "W", <<"s", "i", "g", "n">>)>>] :
        h \in {<<"HYPH", <<"-">>>>, <<"SYM", <<"-">>>>}}

\* one segment from the first to the last element of the file
WholeFileSeg(elems) == <<Seg(1, elems[1].key, elems[Len(elems)].key, TRUE, TRUE)>>

InitWords ==
    /\ NoBaseline
    /\ pc = "load_all_words"
    /\ status = "ok"
    /\ log = {}
    /\ MIN_SEGMENT_SIZE = DefaultMinSegmentSize
    /\ notes = <<>>
    /\ raw_transitions = <<>>
    /\ transitions = <<>>
    /\ dialect = "icsi"
    /\ xml = <<>>
    /\ utterances = EmptyMap
    /\ index = EmptyMap
    /\ heap = <<>>
    /\ anno_root = 0
    /\ anno_index = EmptyMap
    /\ word_xml \in TokenFiles \cup FlagSignFiles
    /\ segs = [sp \in {"A"} |-> WholeFileSeg(word_xml["A"])]
    /\ words = EmptyMap
    /\ utt_refs = EmptyMap
    /\ quote_stacks = EmptyMap

SpecWords == InitWords /\ [][NextSegs]_vars

----------------------------------------------------------------------------
(* The AMI load of a document with one reference: the root is a leaf whose *)
(* keys and utterances are what segment_to_utterances makes of that entry. *)

\* most elements of a word file of this specification
MaxAmiWords == 3

\* texts of a word element: none, a word, words closing a sentence, a full
\* stop inside line feeds, a blank text, a word between a tab and a line feed
SplitTexts == {<<>>, <<"a">>, <<"b", ".">>, <<"\n", ".", "\n">>, <<"c", "?">>, <<" ">>,
               <<"\t", "a", "\n">>}

SplitWordFiles ==
    UNION {{[sp \in {"A"} |-> [i \in 1..n |-> WordElem(WordKey(i - 1), f[i], i)]] :
                f \in [1..n -> SplitTexts]} : n \in 1..MaxAmiWords}

InitSplit ==
    /\ NoBaseline
    /\ pc = "load_all_words"
    /\ status = "ok"
    /\ log = {}
    /\ MIN_SEGMENT_SIZE = DefaultMinSegmentSize
    /\ notes = <<>>
    /\ raw_transitions = <<>>
    /\ transitions = <<>>
    /\ dialect = "ami"
    /\ word_xml \in SplitWordFiles
    /\ \E r \in KeyRanges(Len(word_xml["A"])) :
            /\ r[1] <= r[2]
            /\ xml \in {<<XmlRoot, [depth |-> 1, tag |-> "child", href |-> h]>> :
                            h \in {Href("A", r[1], r[2]), HrefDots("A", r[1], r[2])}}
    /\ utterances = EmptyMap
    /\ index = EmptyMap
    /\ heap = <<>>
    /\ anno_root = 0
    /\ anno_index = EmptyMap
    /\ words = EmptyMap
    /\ NoSegs

SpecSplit == InitSplit /\ [][NextAMI]_vars

----------------------------------------------------------------------------
(* The baseline segmenters of src/baselines.py as main calls them: the     *)
(* entry list and K are drawn from bounded sets.                           *)

\* longest entry list handed to a baseline segmenter
MaxEntries == 6

\* the subsets of 0..(n - 1) with k elements: what
\* np.random.choice(N, K-1, replace=False) can return
Choices(n, k) == {c \in SUBSET (0..(n - 1)) : Cardinality(c) = k}

\* RandomSeg.segment_meeting with the drawn indices
random_segment_meeting(entries, indices) ==
    [i \in 1..Len(entries) |-> IF (i - 1) \in indices THEN 1 ELSE 0]

\* EquiSeg.segment_meeting
equi_segment_meeting(entries, K) ==
    LET period == Len(entries) \div (K - 1)
        offset == period \div 2
    IN  [i \in 1..Len(entries) |-> IF ((i - 1) + offset) % period = 0 THEN 1 ELSE 0]

InitBaseline ==
    /\ pc = "segment_meeting"
    /\ status = "ok"
    /\ log = {}
    /\ MIN_SEGMENT_SIZE = DefaultMinSegmentSize
    /\ \E n \in 1..MaxEntries :
            /\ notes = [i \in 1..n |-> Utt("A", i)]
            /\ true_K \in 1..(n + 1)
    /\ raw_transitions = <<>>
    /\ transitions = <<>>
    /\ NoTree
    /\ NoWords
    /\ model_name = "none"
    /\ transitions_hat = <<>>

\* model = RandomSeg(entries); model.segment_meeting(true_K)
RandomSegment ==
    /\ pc = "segment_meeting"
    /\ model_name' = "random"
    /\ \E indices \in Choices(Len(notes), true_K - 1) :
            transitions_hat' = random_segment_meeting(notes, indices)
    /\ pc' = "segmented"
    /\ UNCHANGED <<status, log, smoothVars, treeVars, wordVars, true_K>>

\* model = EquiSeg(entries); model.segment_meeting(true_K): K = 1 divides
\* by zero
EquiSegment ==
    /\ pc = "segment_meeting"
    /\ model_name' = "equi"
    /\ IF true_K - 1 = 0
       THEN /\ status' = "ZeroDivisionError"
            /\ pc' = "aborted"
            /\ UNCHANGED transitions_hat
       ELSE /\ transitions_hat' = equi_segment_meeting(notes, true_K)
            /\ pc' = "segmented"
            /\ UNCHANGED status
    /\ UNCHANGED <<log, smoothVars, treeVars, wordVars, true_K>>

NextBaseline ==
    \/ RandomSegment
    \/ EquiSegment

SpecBaseline == InitBaseline /\ [][NextBaseline]_vars

----------------------------------------------------------------------------
(* Both ICSI loads and the AMI load together *)

SpecCompose == (InitSegs \/ InitAMI \/ InitSplit) /\ [][NextSegs \/ NextAMI]_vars

Init == InitSmooth \/ InitTree \/ InitSegs \/ InitWords \/ InitSplit \/ InitBaseline

Next == NextSmooth \/ NextTree \/ NextSegs \/ NextBaseline

Spec == Init /\ [][Next]_vars

----------------------------------------------------------------------------
(* Claims about the annotation tree and the transition vectors *)

\* the nodes reachable from a node through the child lists
RECURSIVE ReachFrom(_, _, _)
ReachFrom(h, frontier, seen) ==
    IF frontier = {} THEN seen
    ELSE LET n == CHOOSE x \in frontier : TRUE
             kids == {h[n].nn[k] : k \in 1..Len(h[n].nn)}
         IN  ReachFrom(h, (frontier \cup kids) \ (seen \cup {n}), seen \cup {n})

Reachable(h, root) == IF root = 0 THEN {} ELSE ReachFrom(h, {root}, {})

\* the tree has its final shape for the pass named by pc
IcsiNormalized ==
    /\ dialect = "icsi"
    /\ pc \in {"attach_meeting_notes", "finalize_anno_tree", "compose_meeting_notes", "done"}

IcsiFinalized == dialect = "icsi" /\ pc \in {"compose_meeting_notes", "done"}

AmiBuilt == dialect = "ami" /\ pc \in {"compose_meeting_notes", "done"}

\* C3: the raw vector, the smoothed vector and the flattened notes have the
\* same length, and the raw vector starts with 0 when it is not empty.
C3_RawAligned ==
    pc = "done" =>
        /\ Len(raw_transitions) = Len(notes)
        /\ Len(transitions) = Len(notes)
        /\ (Len(raw_transitions) > 0 => raw_transitions[1] = 0)

\* an ICSI load whose first leaf (*.0) resolved nothing and was deleted,
\* while a later leaf supplied the notes
C3_Witness ==
    /\ pc = "done"
    /\ dialect = "icsi"
    /\ ~heap[anno_root].is_leaf
    /\ <<"*", 0>> \notin DOMAIN anno_index
    /\ Len(raw_transitions) > 0

IsChildPath(child, parent) ==
    /\ Len(child) = Len(parent) + 1
    /\ SubSeq(child, 1, Len(parent)) = parent
    /\ child[Len(child)] \in Nat

\* C4: once the tree is built and normalized (and at every later pass),
\* the root's path is "*", every child's path is its parent's path plus one
\* ordinal, no two reachable nodes share a path, the index maps every
\* reachable node's path to that node, and registering any of these paths
\* again ends the load.
C4_PathsUnique ==
    (IcsiNormalized \/ AmiBuilt) =>
        LET R == Reachable(heap, anno_root)
        IN  /\ heap[anno_root].path = RootPath
            /\ \A n \in R : \A k \in 1..Len(heap[n].nn) :
                    IsChildPath(heap[heap[n].nn[k]].path, heap[n].path)
            /\ \A a, b \in R : a # b => heap[a].path # heap[b].path
            /\ \A n \in R : /\ heap[n].path \in DOMAIN anno_index
                            /\ anno_index[heap[n].path] = n
            /\ \A n \in R : register_anno_node(CurrentTree, n).status # "ok"

\* a finished ICSI load that deleted the leaf *.0 and kept its sibling *.1
C4_Witness ==
    /\ pc = "done"
    /\ dialect = "icsi"
    /\ Cardinality(Reachable(heap, anno_root)) >= 2
    /\ <<"*", 1>> \in DOMAIN anno_index
    /\ \E n \in 1..Len(heap) : /\ heap[n].is_leaf
                               /\ heap[n].path # <<>>
                               /\ heap[n].path \notin DOMAIN anno_index

\* the leaves met by a recursive pre-order visit of the child lists
RECURSIVE PreorderLeaves(_, _)
RECURSIVE PreorderOfList(_, _)
PreorderOfList(h, nn) ==
    IF nn = <<>> THEN <<>> ELSE PreorderLeaves(h, Head(nn)) \o PreorderOfList(h, Tail(nn))

PreorderLeaves(h, n) ==
    (IF h[n].is_leaf THEN <<n>> ELSE <<>>) \o PreorderOfList(h, h[n].nn)

RECURSIVE ConcatConvo(_, _)
ConcatConvo(h, leaves) ==
    IF leaves = <<>> THEN <<>> ELSE h[Head(leaves)].convo \o ConcatConvo(h, Tail(leaves))

\* C5: discover_anno_leaves yields the reachable is_leaf nodes, each once,
\* in recursive pre-order; the notes are the concatenation of those
\* leaves' utterance lists in that order.
C5_PreorderLeaves ==
    anno_root # 0 =>
        LET leaves == discover_anno_leaves(heap, anno_root)
        IN  /\ leaves = PreorderLeaves(heap, anno_root)
            /\ {leaves[i] : i \in 1..Len(leaves)} =
                    {n \in Reachable(heap, anno_root) : heap[n].is_leaf}
            /\ \A i, j \in 1..Len(leaves) : i # j => leaves[i] # leaves[j]
            /\ (pc = "done" => notes = ConcatConvo(heap, leaves))

\* a finished load with two leaves, a topic of the document followed by a
\* leaf composed from loose utterances, both with notes
C5_Witness ==
    /\ pc = "done"
    /\ LET leaves == discover_anno_leaves(heap, anno_root)
       IN  /\ Len(leaves) = 2
           /\ ~heap[leaves[1]].composed
           /\ heap[leaves[2]].composed
           /\ heap[leaves[1]].convo # <<>>
           /\ heap[leaves[2]].convo # <<>>
           /\ notes = heap[leaves[1]].convo \o heap[leaves[2]].convo

\* C6: finalization removes every leaf without resolved utterances (the
\* root included) from the index and from the child lists, and never
\* aborts the load.
C6_EmptyLeavesRemoved ==
    /\ (pc = "aborted" => status # "KeyError: path")
    /\ IcsiFinalized =>
            \A n \in 1..Len(heap) :
                (heap[n].is_leaf /\ heap[n].convo = <<>>) =>
                    /\ heap[n].path \notin DOMAIN anno_index
                    /\ n \notin Reachable(heap, anno_root)

\* C9: a key claimed by two leaves stays with the first one only, so no
\* utterance occurs twice in the flattened notes.
C9_FirstClaimKept ==
    /\ (dialect = "icsi" /\ pc \in {"finalize_anno_tree", "compose_meeting_notes", "done"}) =>
            LET leaves == discover_anno_leaves(heap, anno_root)
            IN  \A i, j \in 1..Len(leaves) : i < j =>
                    \A a \in 1..Len(heap[leaves[i]].keys) :
                        \A b \in 1..Len(heap[leaves[j]].keys) :
                            heap[leaves[i]].keys[a] # heap[leaves[j]].keys[b]
    /\ (dialect = "icsi" /\ pc = "done") =>
            \A i, j \in 1..Len(notes) : i # j => notes[i] # notes[j]

\* the tree as normalize_anno_tree left it, before any key was attached
NormalizedHeap ==
    LET b == icsi_build_anno(TreeState(<<>>, EmptyMap, "ok", {}), xml, 1)
    IN  normalize_anno_tree(b.ts, RootPath, b.id).heap

Resolves(key) == key.speaker \in DOMAIN index /\ key.key \in DOMAIN index[key.speaker]

\* C10: attach_meeting_notes never aborts; it leaves on every leaf the
\* keys that resolve, in their order, and convo[k] is the utterance of
\* keys[k]; a key whose speaker has no utterance table is dropped like one
\* missing from its speaker's table.
C10_UnresolvedKeysDropped ==
    /\ (pc = "aborted" => status # "KeyError: speaker")
    /\ (dialect = "icsi" /\ pc = "finalize_anno_tree") =>
            \A n \in 1..Len(heap) : heap[n].is_leaf =>
                /\ heap[n].keys = SelectSeq(NormalizedHeap[n].keys, Resolves)
                /\ Len(heap[n].convo) = Len(heap[n].keys)
                /\ \A k \in 1..Len(heap[n].keys) :
                        heap[n].convo[k] = index[heap[n].keys[k].speaker][heap[n].keys[k].key]

----------------------------------------------------------------------------
(* Claims about composing utterances from token ranges *)

\* the speaker's tokens as load_meeting_words produced them
FreshWords(sp) ==
    LET l == icsi_load_speaker_words(word_xml[sp])
    IN  [words |-> l.words, index |-> l.index]

\* every token of the segment's range is an absent placeholder
IcsiDegenerate(sp, seg) ==
    LET wi == FreshWords(sp)
    IN  \A p \in wi.index[seg.first]..wi.index[seg.last] : IsNone(wi.words[p + 1])

\* the segment composed on its own from freshly loaded tokens
ComposedAlone(sp, seg) ==
    LET r == speaker_utterances(FreshWords(sp), sp, <<seg>>)
    IN  r.ws[r.refs[1] + 1]

NonDegenerateSeg(seg) == ~IcsiDegenerate("A", seg)

\* C7: composing utterances leaves every token's text, tag and spacing
\* flags as load_meeting_words set them, and every segment composes to the
\* text it has when composed alone.
C7_TokenIndexReadOnly ==
    (dialect = "icsi" /\ pc = "utterances_loaded") =>
        /\ \A sp \in DOMAIN words : \A i \in 1..Len(words[sp].words) :
                LET now == words[sp].words[i]
                    was == FreshWords(sp).words[i]
                IN  /\ now.none = was.none
                    /\ now.text = was.text
                    /\ now.tag = was.tag
                    /\ now.lspace = was.lspace
                    /\ now.rspace = was.rspace
        /\ \A sp \in DOMAIN utterances :
                LET made == SelectSeq(segs[sp], NonDegenerateSeg)
                IN  \A k \in 1..Len(utterances[sp]) :
                        utterances[sp][k].text = ComposedAlone(sp, made[k]).text

\* the runs of consecutive "child" entries that the while loop of
\* build_anno hands to segment_to_utterances, as lists of hrefs
RECURSIVE RunsOf(_, _)
RunsOf(x, children) ==
    IF children = <<>> THEN <<>>
    ELSE IF x[Head(children)].tag = "child"
    THEN LET n == ChildRun(x, children)
         IN  <<[k \in 1..n |-> x[children[k]].href]>>
                \o RunsOf(x, SubSeq(children, n + 1, Len(children)))
    ELSE RunsOf(x, Tail(children))

\* the runs a node composes: all of them, or the first one for a leaf
ComposedRuns(x, i) ==
    LET children == XmlChildren(x, i)
        runs == RunsOf(x, children)
    IN  IF (\E k \in 1..Len(children) : x[children[k]].tag = "topic") \/ runs = <<>>
        THEN runs ELSE <<runs[1]>>

\* the elements a completed build_anno is called on: the element itself
\* and, through each child whose tag holds "topic", that child's; a node
\* without a child tagged "topic" stops at its first reference
RECURSIVE AmiVisited(_, _)
AmiVisited(x, i) ==
    LET children == XmlChildren(x, i)
        refs == {k \in 1..Len(children) : x[children[k]].tag = "child"}
        stops == (\A k \in 1..Len(children) : x[children[k]].tag # "topic") /\ refs # {}
        last == IF stops THEN (CHOOSE k \in refs : \A j \in refs : k <= j) ELSE Len(children)
    IN  {i} \cup UNION {AmiVisited(x, children[k]) :
                            k \in {j \in 1..last : TagHolds(x[children[j]].tag, "topic")}}

AmiNodes(x) == AmiVisited(x, 1)

AmiDegenerate(href) ==
    LET wi == words[href.speaker]
    IN  \A p \in wi.index[href.first]..wi.index[href.last] : IsNone(wi.words[p + 1])

AllDegenerate(run) == \A k \in 1..Len(run) : AmiDegenerate(run[k])

\* the node yields no key: one of its runs has only degenerate entries, or
\* it is a leaf without any run
AmiNodeFails(x, i) ==
    LET children == XmlChildren(x, i)
        runs == ComposedRuns(x, i)
    IN  \/ \E r \in 1..Len(runs) : AllDegenerate(runs[r])
        \/ (runs = <<>> /\ \A k \in 1..Len(children) : x[children[k]].tag # "topic")

\* the entries that were composed by a load that did not abort
AmiComposedEntries(x) ==
    UNION {UNION {{runs[r][k] : k \in 1..Len(runs[r])} : r \in 1..Len(runs)} :
                runs \in {ComposedRuns(x, i) : i \in AmiNodes(x)}}

\* C8 (as stated): a range without a non-gap token ends the load in both
\* dialects; no load that went on has composed such a range.
C8_DegenerateRangeIsError ==
    /\ (dialect = "icsi" /\ pc = "utterances_loaded") =>
            \A sp \in DOMAIN utterances : \A k \in 1..Len(segs[sp]) :
                ~IcsiDegenerate(sp, segs[sp][k])
    /\ (dialect = "ami" /\ pc \in {"compose_meeting_notes", "done"}) =>
            \A href \in AmiComposedEntries(xml) : ~AmiDegenerate(href)

\* C8 (amended): a range without a non-gap token yields no utterance and is
\* skipped; that alone ends no load.  An ICSI load of the utterances that
\* completes has given each speaker one utterance per segment with a
\* non-gap token and none for the other segments; an AMI load
\* that completes holds in its leaves the keys of the composed entries with
\* a non-gap token and of no other.  The hard error comes where nothing is
\* left: an ICSI load whose segments all lack a non-gap token ends in
\* ValueError (min() of no start time), and an AMI load does not complete
\* when a whole run of child entries, or a leaf without entries, yields no
\* utterance.
C8_DegenerateRangeSkipped ==
    /\ (dialect = "icsi" /\ pc = "utterances_loaded") =>
            \A sp \in DOMAIN utterances :
                Len(utterances[sp]) = Len(SelectSeq(segs[sp], NonDegenerateSeg))
    /\ (/\ dialect = "icsi"
        /\ pc \in {"utterances_loaded", "aborted"}
        /\ words # EmptyMap
        /\ \A sp \in DOMAIN words \cap DOMAIN segs :
                SelectSeq(segs[sp], NonDegenerateSeg) = <<>>) =>
            /\ pc = "aborted"
            /\ status = "ValueError: min of empty"
    /\ (dialect = "ami" /\ pc \in {"compose_meeting_notes", "done"}) =>
            /\ \A i \in AmiNodes(xml) : ~AmiNodeFails(xml, i)
            /\ UNION {{heap[n].keys[k] : k \in 1..Len(heap[n].keys)} :
                        n \in {m \in 1..Len(heap) : heap[m].is_leaf}}
                    = {href \in AmiComposedEntries(xml) : ~AmiDegenerate(href)}

\* a finished ICSI load of the utterances in which one segment has no
\* non-gap token and another gave an utterance
C8_Witness ==
    /\ dialect = "icsi"
    /\ pc = "utterances_loaded"
    /\ \E sp \in DOMAIN utterances :
            /\ \E k \in 1..Len(segs[sp]) : IcsiDegenerate(sp, segs[sp][k])
            /\ Len(utterances[sp]) = 1
            /\ Len(segs[sp]) = 2

\* a finished AMI load that composed an entry without a non-gap token next
\* to one that gave the notes
C8_WitnessAMI ==
    /\ dialect = "ami"
    /\ pc = "done"
    /\ \E href \in AmiComposedEntries(xml) : AmiDegenerate(href)
    /\ notes # <<>>

----------------------------------------------------------------------------
(* Claims about the baseline segmenters *)

\* C11: for an entry list of length N and 1 <= K-1 <= N, segment_meeting(K)
\* of RandomSeg and of EquiSeg returns a 0/1 sequence of length N with
\* exactly K-1 ones.
C11_BaselineOnes ==
    (pc = "segmented" /\ true_K - 1 >= 1 /\ true_K - 1 <= Len(notes)) =>
        /\ Len(transitions_hat) = Len(notes)
        /\ \A i \in 1..Len(transitions_hat) : transitions_hat[i] \in {0, 1}
        /\ SumSeq(transitions_hat) = true_K - 1

\* the same for RandomSeg alone
C11_RandomSegOnes == model_name = "random" => C11_BaselineOnes

----------------------------------------------------------------------------
(* Claims about make_word_entry and the composed text *)

WordsLoaded == dialect = "icsi" /\ pc = "load_meeting_utterances" /\ "A" \in DOMAIN words

\* the load of the first k elements of the speaker's word file
LoadedPrefix(k) == icsi_load_speaker_words(SubSeq(word_xml["A"], 1, k))

IsQuoteType(elem) == elem.c \in {"QUOTE", "LQUOTE", "RQUOTE"}

AmbiguousQuote(elem) == elem.c = "QUOTE" /\ elem.text # <<"'">>

\* C12: an ambiguous quote opens when the quote stack is empty (one symbol
\* pushed, no space after) and closes otherwise (one symbol popped, no space
\* before); when every quote token of the file is ambiguous the depth stays
\* 0 or 1; an explicit closing quote on an empty stack leaves it empty,
\* gives a closing entry and does not end the load.
C12_AmbiguousQuotes ==
    WordsLoaded =>
        LET elems == word_xml["A"]
        IN  /\ \A k \in 1..Len(elems) :
                LET before == LoadedPrefix(k - 1).quote_stack
                    after == LoadedPrefix(k).quote_stack
                    entry == words["A"].words[k]
                IN  /\ (AmbiguousQuote(elems[k]) /\ before = <<>>) =>
                            /\ Len(after) = 1
                            /\ ~entry.none /\ ~entry.rspace /\ entry.lspace
                    /\ (AmbiguousQuote(elems[k]) /\ before # <<>>) =>
                            /\ Len(after) = Len(before) - 1
                            /\ ~entry.none /\ ~entry.lspace /\ entry.rspace
                    /\ (elems[k].c = "RQUOTE" /\ elems[k].text # <<"'">> /\ before = <<>>) =>
                            /\ after = <<>>
                            /\ ~entry.none /\ entry.tag = "RQUOTE" /\ ~entry.lspace
                    /\ ((\A j \in 1..Len(elems) : IsQuoteType(elems[j]) => AmbiguousQuote(elems[j]))
                            => Len(after) \in {0, 1})
            /\ quote_stacks["A"] = LoadedPrefix(Len(elems)).quote_stack

\* a word file of three double quotes: an ambiguous one that opened, an
\* ambiguous one that closed, and an explicit closing one on the empty stack
C12_Witness ==
    /\ WordsLoaded
    /\ Len(word_xml["A"]) = 3
    /\ AmbiguousQuote(word_xml["A"][1])
    /\ AmbiguousQuote(word_xml["A"][2])
    /\ word_xml["A"][3].c = "RQUOTE"
    /\ word_xml["A"][3].text = <<"\"">>
    /\ quote_stacks["A"] = <<>>
    /\ "Mismatched quotes" \in log

\* C13: a QUOTE, LQUOTE or RQUOTE token whose text is the lone apostrophe
\* gets the tag and the spacing flags of an apostrophe-suffix (APOSS) token
\* (no space before, a space allowed after) whatever the quote stack holds,
\* and leaves the quote stack as it was.
C13_LoneApostropheAsSuffix ==
    WordsLoaded =>
        \A k \in 1..Len(word_xml["A"]) :
            LET elem == word_xml["A"][k]
                before == LoadedPrefix(k - 1).quote_stack
                entry == words["A"].words[k]
                suffix == make_word_entry("APOSS", elem.text, before).entry
            IN  (IsQuoteType(elem) /\ elem.text = <<"'">>) =>
                    /\ entry.tag = suffix.tag
                    /\ entry.lspace = suffix.lspace
                    /\ entry.rspace = suffix.rspace
                    /\ ~entry.lspace
                    /\ entry.rspace
                    /\ LoadedPrefix(k).quote_stack = before

IsHyphen(elem) == elem.c = "HYPH" \/ (elem.c = "SYM" /\ elem.text = <<"-">>)

\* a space next to a hyphen character in a text
SpaceAtHyphen(text) ==
    \E i \in 1..(Len(text) - 1) :
        \/ (text[i] = " " /\ text[i + 1] = "-")
        \/ (text[i] = "-" /\ text[i + 1] = " ")

\* C14: a HYPH token and a SYM token with text "-" get no space on either
\* side; a SYM token with another text is discarded but keeps its index
\* slot; the composition of all tokens of a file has no space next to a
\* hyphen, and "flag", "-", "sign" compose to "flag-sign".
C14_HyphenUnspaced ==
    /\ WordsLoaded =>
            /\ Len(words["A"].words) = Len(word_xml["A"])
            /\ \A k \in 1..Len(word_xml["A"]) :
                LET elem == word_xml["A"][k]
                    entry == words["A"].words[k]
                IN  /\ words["A"].index[elem.key] = k - 1
                    /\ IsHyphen(elem) =>
                            /\ ~entry.none /\ entry.text = <<"-">>
                            /\ ~entry.lspace /\ ~entry.rspace
                    /\ (elem.c = "SYM" /\ elem.text # <<"-">>) => entry.none
    /\ (dialect = "icsi" /\ pc = "utterances_loaded" /\ word_xml \in TokenFiles \cup FlagSignFiles) =>
            /\ \A i \in 1..Len(utterances["A"]) : ~SpaceAtHyphen(utterances["A"][i].text)
            /\ word_xml \in FlagSignFiles =>
                    /\ Len(utterances["A"]) = 1
                    /\ utterances["A"][1].text =
                            <<"f", "l", "a", "g", "-", "s", "i", "g", "n">>

\* the composed file "flag", "-" (typed SYM), "sign"
C14_Witness ==
    /\ pc = "utterances_loaded"
    /\ word_xml \in FlagSignFiles
    /\ word_xml["A"][2].c = "SYM"
    /\ Len(utterances["A"]) = 1
    /\ Len(utterances["A"][1].text) = 9

----------------------------------------------------------------------------
(* Further claims about the transition vectors *)

\* for every utterance of the flattened notes, the position of its leaf in
\* the traversal order
RECURSIVE Owners(_, _, _)
Owners(h, leaves, leaf_id) ==
    IF leaves = <<>> THEN <<>>
    ELSE [k \in 1..Len(h[Head(leaves)].convo) |-> leaf_id]
            \o Owners(h, Tail(leaves), leaf_id + 1)

\* C15: from the second utterance on, raw is 1 exactly where the utterance's
\* leaf differs from the leaf of the utterance before it; the number of
\* ones is the number of leaves with at least one utterance, minus one.
C15_RawIffLeafChange ==
    (pc = "done" /\ anno_root # 0) =>
        LET leaves == discover_anno_leaves(heap, anno_root)
            owner == Owners(heap, leaves, 0)
            contributing == {k \in 1..Len(leaves) : heap[leaves[k]].convo # <<>>}
        IN  /\ Len(owner) = Len(raw_transitions)
            /\ \A i \in 2..Len(raw_transitions) :
                    raw_transitions[i] = 1 <=> owner[i] # owner[i - 1]
            /\ \A i \in 1..Len(raw_transitions) : raw_transitions[i] \in {0, 1}
            /\ raw_transitions # <<>> =>
                    SumSeq(raw_transitions) = Cardinality(contributing) - 1

\* a finished load of two leaves where a leaf gave two utterances: raw has
\* a 0 and a 1 after its first position
C15_Witness ==
    /\ pc = "done"
    /\ anno_root # 0
    /\ Len(discover_anno_leaves(heap, anno_root)) = 2
    /\ Len(raw_transitions) >= 3
    /\ SumSeq(raw_transitions) = 1

\* the left-to-right scan with the window [max(0, i - M), i) over a copy
\* of raw: position i (0-based) is cleared iff the window holds a boundary
RECURSIVE ClampedScanFrom(_, _, _)
ClampedScanFrom(t, i, m) ==
    IF i >= Len(t) THEN t
    ELSE ClampedScanFrom(
            IF SumSeq(SubSeq(t, Max(0, i - m) + 1, i)) > 0 THEN [t EXCEPT ![i + 1] = 0] ELSE t,
            i + 1, m)

ClampedScan(raw, m) == ClampedScanFrom(raw, 0, m)

\* C16: the smoothed vector is the result of the scan with the window
\* clamped at 0; the twelve-utterance example with M = 10 keeps the
\* boundaries at positions 1 and 11 only.
C16_SmoothedIsClampedScan ==
    (pc = "done" /\ dialect = "none" /\ model_name = "none") =>
        /\ transitions = ClampedScan(raw_transitions, MIN_SEGMENT_SIZE)
        /\ (raw_transitions = ExampleRaw /\ MIN_SEGMENT_SIZE = 10) =>
                transitions = <<0, 1, 0, 0, 0, 0, 0, 0, 0, 0, 0, 1>>

\* C20: smoothing only clears boundaries (smoothed[i] <= raw[i]), keeps the
\* first boundary of raw, and never changes the stored raw vector.
C20_SmoothingOnlyClears ==
    /\ [](pc = "done" =>
            /\ Len(transitions) = Len(raw_transitions)
            /\ \A i \in 1..Len(raw_transitions) : transitions[i] <= raw_transitions[i]
            /\ \A i \in Ones(raw_transitions) :
                    (\A j \in Ones(raw_transitions) : i <= j) => transitions[i] = 1)
    /\ [][raw_transitions' = raw_transitions]_vars

\* a smoothed vector that lost a boundary of raw and kept the first one
C20_Witness ==
    /\ pc = "done"
    /\ dialect = "none"
    /\ SumSeq(transitions) >= 1
    /\ SumSeq(transitions) < SumSeq(raw_transitions)

----------------------------------------------------------------------------
(* Claims about the tree AMI build_anno returns *)

\* the "child" entries at the front of a child list
RECURSIVE LeadingRefs(_, _)
LeadingRefs(x, children) ==
    IF children = <<>> \/ x[Head(children)].tag # "child" THEN <<>>
    ELSE <<x[Head(children)].href>> \o LeadingRefs(x, Tail(children))

\* a child list without the pointers at its front
RECURSIVE SkipPointers(_, _)
SkipPointers(x, children) ==
    IF children # <<>> /\ x[Head(children)].tag = "pointer"
    THEN SkipPointers(x, Tail(children)) ELSE children

LeafShape(path, run) ==
    [is_leaf |-> TRUE, path |-> path, keys |-> segment_to_utterances(words, run).keys,
     kids |-> <<>>]

\* the tree the document stands for: a node without topic children is a
\* leaf holding the keys of its first run of references; under any other
\* node each topic and each maximal run of references is one child, in
\* document order, with consecutive ordinals
RECURSIVE ExpectedShape(_, _, _)
RECURSIVE ExpectedKids(_, _, _, _)
ExpectedKids(x, children, path, ordinal) ==
    IF children = <<>> THEN <<>>
    ELSE IF x[Head(children)].tag = "pointer"
    THEN ExpectedKids(x, Tail(children), path, ordinal)
    ELSE IF x[Head(children)].tag = "topic"
    THEN <<ExpectedShape(x, Head(children), ChildPath(path, ordinal))>>
            \o ExpectedKids(x, Tail(children), path, ordinal + 1)
    ELSE LET run == LeadingRefs(x, children)
         IN  <<LeafShape(ChildPath(path, ordinal), run)>>
                \o ExpectedKids(x, SubSeq(children, Len(run) + 1, Len(children)),
                                path, ordinal + 1)

ExpectedShape(x, i, path) ==
    LET children == XmlChildren(x, i)
    IN  IF \A k \in 1..Len(children) : x[children[k]].tag # "topic"
        THEN LeafShape(path, LeadingRefs(x, SkipPointers(x, children)))
        ELSE [is_leaf |-> FALSE, path |-> path, keys |-> <<>>,
              kids |-> ExpectedKids(x, children, path, 0)]

RECURSIVE HeapShape(_, _)
HeapShape(h, n) ==
    [is_leaf |-> h[n].is_leaf, path |-> h[n].path, keys |-> h[n].keys,
     kids |-> [k \in 1..Len(h[n].nn) |-> HeapShape(h, h[n].nn[k])]]

\* C17: in the tree AMI build_anno returns, an interior node holds no keys
\* and no utterances, each maximal run of references under it is one
\* synthetic leaf at the run's place among the topics with the next ordinal,
\* a leaf node holds its first run and ignores what follows, and every leaf
\* has keys and no children.
C17_AmiTreeShape ==
    AmiBuilt =>
        /\ HeapShape(heap, anno_root) = ExpectedShape(xml, 1, RootPath)
        /\ \A n \in Reachable(heap, anno_root) :
                /\ heap[n].is_leaf =>
                        /\ heap[n].keys # <<>>
                        /\ heap[n].nn = <<>>
                        /\ Len(heap[n].convo) = Len(heap[n].keys)
                /\ ~heap[n].is_leaf =>
                        /\ heap[n].keys = <<>>
                        /\ heap[n].convo = <<>>

\* the documents whose elements are tagged root, topic, pointer or child
\* and nothing else
ExactTags(x) == \A i \in 1..Len(x) : x[i].tag \in {"root", "topic", "pointer", "child"}

\* C17 for the documents with exact tags: on them `tag == "topic"` and
\* `"topic" in tag` agree, and the tree has the shape C17 states
C17_ExactTagsShape == ExactTags(xml) => C17_AmiTreeShape

\* a finished AMI load whose root holds two references followed by a topic:
\* its two children are the synthetic leaf *.0, which holds the keys of
\* both references, and the topic *.1
C17_Witness ==
    /\ AmiBuilt
    /\ pc = "done"
    /\ ~heap[anno_root].is_leaf
    /\ Len(heap[anno_root].nn) = 2
    /\ Len(xml) = 5
    /\ xml[2].tag = "child"
    /\ xml[3].tag = "child"
    /\ xml[4].tag = "topic"
    /\ heap[heap[anno_root].nn[1]].keys = <<xml[2].href, xml[3].href>>

\* a finished AMI load of a root that holds a "subtopic" and then a
\* reference: the root is flagged is_leaf, holds the reference's keys and
\* has the subtopic's node as a child
C17_LeafWithChild ==
    /\ AmiBuilt
    /\ heap[anno_root].is_leaf
    /\ heap[anno_root].keys # <<>>
    /\ heap[anno_root].nn # <<>>

----------------------------------------------------------------------------
(* Claims about the AMI split of a key range into utterances *)

NotGap(w) == ~IsNone(w)

\* the text of a run of tokens: one space between two neighbours where the
\* left one allows a right space and the right one a left space
RECURSIVE JoinedText(_)
JoinedText(ws) ==
    IF Len(ws) = 0 THEN <<>>
    ELSE IF Len(ws) = 1 THEN ws[1].text
    ELSE JoinedText(SubSeq(ws, 1, Len(ws) - 1))
            \o (IF ws[Len(ws) - 1].rspace /\ ws[Len(ws)].lspace THEN <<" ">> ELSE <<>>)
            \o ws[Len(ws)].text

EndsSentence(w) == w.text # <<>> /\ w.text[Len(w.text)] \in {".", "!", "?"}

\* C18: the utterances made from the key range of an entry partition the
\* range's non-gap tokens in order; one utterance ends at each token whose
\* text ends in ".", "!" or "?", and a non-empty rest is the last utterance;
\* an utterance starts at its first token's start, ends at its last token's
\* end, and its text joins its tokens with single spaces where both
\* neighbours allow one, with no space in front.
C18_SplitOnSentenceEnd ==
    (AmiBuilt /\ Len(xml) = 2 /\ IsRange(xml[2].href)) =>
        LET href == xml[2].href
            wi == words[href.speaker]
            toks == SelectSeq(SubSeq(wi.words, wi.index[href.first] + 1,
                                     wi.index[href.last] + 1), NotGap)
            closers == {k \in 1..Len(toks) : EndsSentence(toks[k])} \cup
                            (IF Len(toks) > 0 THEN {Len(toks)} ELSE {})
            last(j) == CHOOSE e \in closers : Cardinality({c \in closers : c <= e}) = j
            first(j) == IF j = 1 THEN 1 ELSE last(j - 1) + 1
            utts == heap[anno_root].convo
        IN  /\ Len(utts) = Cardinality(closers)
            /\ heap[anno_root].keys = [j \in 1..Len(utts) |-> href]
            /\ \A j \in 1..Len(utts) :
                    /\ utts[j].key = href
                    /\ utts[j].speaker = href.speaker
                    /\ utts[j].start = toks[first(j)].start
                    /\ utts[j].end = toks[last(j)].end
                    /\ utts[j].text = JoinedText(SubSeq(toks, first(j), last(j)))
                    /\ (utts[j].text # <<>> => utts[j].text[1] # " ")
            /\ notes = <<>> \/ notes = utts

\* a finished load of a range of three tokens: a word, a word closing a
\* sentence with "?", and a word left over as the last utterance
C18_Witness ==
    /\ AmiBuilt
    /\ pc = "done"
    /\ Len(xml) = 2
    /\ Len(notes) = 2
    /\ notes[1].text = <<"a", " ", "c", "?">>
    /\ notes[2].text = <<"a">>
    /\ notes[1].start < notes[1].end
    /\ word_xml["A"][3].text = <<"\t", "a", "\n">>

----------------------------------------------------------------------------
(* Claims about ICSI normalize_anno_tree *)

\* the tree as build_anno left it, placeholders still in the child lists
BuiltHeap == icsi_build_anno(TreeState(<<>>, EmptyMap, "ok", {}), xml, 1).ts.heap

IsPlaceholder(h, n) == h[n].tag = "utterance"

\* a child list read from its end: a node that is no placeholder is a group
\* of its own (node is its id), a placeholder joins the group of the
\* placeholder before it or opens a group (node is 0, keys is the run's keys)
RECURSIVE GroupedChildren(_, _)
GroupedChildren(h, nn) ==
    IF nn = <<>> THEN <<>>
    ELSE LET front == SubSeq(nn, 1, Len(nn) - 1)
             last == nn[Len(nn)]
             g == GroupedChildren(h, front)
         IN  IF ~IsPlaceholder(h, last)
             THEN Append(g, [node |-> last, keys |-> <<>>])
             ELSE IF front # <<>> /\ IsPlaceholder(h, front[Len(front)])
             THEN [g EXCEPT ![Len(g)].keys = Append(@, h[last].key)]
             ELSE Append(g, [node |-> 0, keys |-> <<h[last].key>>])

\* the keys under a node, left to right: a placeholder is its key, any
\* other node its own keys followed by those under its children
RECURSIVE InOrderKeys(_, _)
RECURSIVE InOrderKeysOfList(_, _)
InOrderKeys(h, n) ==
    IF IsPlaceholder(h, n) THEN <<h[n].key>>
    ELSE h[n].keys \o InOrderKeysOfList(h, h[n].nn)
InOrderKeysOfList(h, nn) ==
    IF nn = <<>> THEN <<>> ELSE InOrderKeys(h, Head(nn)) \o InOrderKeysOfList(h, Tail(nn))

JustNormalized == dialect = "icsi" /\ pc = "attach_meeting_notes"

\* C19: after normalize_anno_tree no child list holds a placeholder; a node
\* is a leaf iff all its children before the pass were placeholders, and it
\* then holds their keys in order and has no children; any other node is
\* interior, holds no keys, and each maximal run of placeholders among its
\* children has become one synthetic leaf topic holding the run's keys, at
\* the run's position among the siblings; the in-order sequence of all keys
\* is the one before the pass.
C19_NormalizedTree ==
    JustNormalized =>
        LET pre == BuiltHeap
            old == {n \in 1..Len(pre) : ~IsPlaceholder(pre, n)}
        IN  /\ Len(heap) >= Len(pre)
            /\ \A n \in Reachable(heap, anno_root) :
                    \A k \in 1..Len(heap[n].nn) : ~IsPlaceholder(heap, heap[n].nn[k])
            /\ \A n \in old :
                    LET kids == pre[n].nn
                        groups == GroupedChildren(pre, kids)
                        all_placeholders == \A k \in 1..Len(kids) : IsPlaceholder(pre, kids[k])
                    IN  /\ heap[n].is_leaf <=> all_placeholders
                        /\ heap[n].tag = pre[n].tag
                        /\ all_placeholders =>
                                /\ heap[n].keys = [k \in 1..Len(kids) |-> pre[kids[k]].key]
                                /\ heap[n].nn = <<>>
                        /\ ~all_placeholders =>
                                /\ heap[n].keys = <<>>
                                /\ Len(heap[n].nn) = Len(groups)
                                /\ \A g \in 1..Len(groups) :
                                        LET c == heap[n].nn[g]
                                        IN  IF groups[g].node # 0
                                            THEN c = groups[g].node
                                            ELSE /\ c > Len(pre)
                                                 /\ heap[c].tag = "topic"
                                                 /\ heap[c].composed
                                                 /\ heap[c].is_leaf
                                                 /\ heap[c].nn = <<>>
                                                 /\ heap[c].keys = groups[g].keys
                                                 /\ heap[c].path = ChildPath(heap[n].path, g - 1)
            /\ InOrderKeys(heap, anno_root) = InOrderKeys(pre, anno_root)

\* a tree just normalized whose root held a run of two placeholders and
\* then a topic: the run is the synthetic leaf *.0 with both keys, the
\* topic is the leaf *.1 with the keys of its own placeholders
C19_Witness ==
    /\ JustNormalized
    /\ ~heap[anno_root].is_leaf
    /\ Len(heap[anno_root].nn) = 2
    /\ heap[heap[anno_root].nn[1]].composed
    /\ Len(heap[heap[anno_root].nn[1]].keys) = 2
    /\ ~heap[heap[anno_root].nn[2]].composed
    /\ heap[heap[anno_root].nn[2]].is_leaf
    /\ heap[heap[anno_root].nn[2]].keys # <<>>

====
